---- MODULE Spec2Model ----
(***************************************************************************)
(* Model of the MRT-MQTT SDN controller: the OF-DB registry, the routing   *)
(* engine (delay-aware Dijkstra and Steiner tree), the Trajectory-Approach *)
(* schedulability analysis, admission control and the flow orchestrator    *)
(* (register_rt_flow, handle_new_subscriber) with the switch tables it     *)
(* programs.                                                               *)
(*                                                                         *)
(* Times are integers in units of 0.001 ms (5 ms = 5000). Node labels are  *)
(* the strings the controller uses in the topology graph; datapath ids are *)
(* the integers int(label).                                                *)
(***************************************************************************)
EXTENDS Integers, Sequences, FiniteSets, TLC

VARIABLES
    links,        \* of_db.links: the Link objects, in dict insertion order
    flows,        \* of_db.flows: topic -> reference (object id) of its RTAttributes
    objs,         \* the RTAttributes objects that are still referenced, by object id
    subscribers,  \* of_db.subscribers: topic -> set of subscriber ips
    datapaths,    \* RyuMRTApp.datapaths: dpids whose features handshake was seen
    sw_groups,    \* group tables of the switches: records [dpid, gid, ports]
    sw_meters,    \* meter tables of the switches: records [dpid, mid, rate]
    sw_rules,     \* flow tables of the switches: records [dpid, priority, match, gid, mid]
    topic_hash,   \* abs(hash(ft_i)) of each topic, fixed for the process lifetime
    set_order,    \* iteration order of a Python set of node labels, fixed per process
    calls,        \* handler invocations in flight (the interleaved specification only)
    ops,          \* number of handler invocations started so far
    reg,          \* history: per topic, the verdict and arguments of its latest registration
    last,         \* history: the operation that completed in the last step
    adm,          \* a direct call of check_admissibility: its arguments and its result
    http,         \* the response of the northbound handler that ran last
    pathcall,     \* a direct call of calculate_path: its arguments and its result
    msdp,         \* MSDP_Signaling: active_sources and the peer-handler threads
    monitor       \* NetworkMonitor: running, history and the outcomes of the last pass

vars == <<links, flows, objs, subscribers, datapaths, sw_groups, sw_meters, sw_rules,
          topic_hash, set_order, calls, ops, reg, last, adm, http, pathcall, msdp,
                   monitor>>

----------------------------------------------------------------------------
(* Generic helpers *)

Put(f, k, v) == [x \in (DOMAIN f) \cup {k} |-> IF x = k THEN v ELSE f[x]]

Range(s) == {s[i] : i \in 1..Len(s)}

InSeq(x, s) == \E i \in 1..Len(s) : s[i] = x

RECURSIVE SumSeq(_)
SumSeq(s) == IF s = <<>> THEN 0 ELSE Head(s) + SumSeq(Tail(s))

\* the elements of a set, one after the other
RECURSIVE SeqOfSet(_)
SeqOfSet(S) ==
    IF S = {} THEN <<>>
    ELSE LET x == CHOOSE y \in S : TRUE IN <<x>> \o SeqOfSet(S \ {x})

\* math.ceil(a / b) for a >= 0, b > 0
Ceil(a, b) == (a + b - 1) \div b

\* int(link.src): the datapath id of a node label
DpidOf(label) ==
    CASE label = "1" -> 1
      [] label = "2" -> 2
      [] label = "3" -> 3
      [] label = "4" -> 4
      [] OTHER -> 0

----------------------------------------------------------------------------
(* common.rt_attributes.Link and the topology the harness installs *)

MkLink(s, d, p, prop, cap) ==
    [src |-> s, dst |-> d, port_out |-> p,
     prop_delay |-> prop, switch_delay |-> 0, proc_delay |-> 0,
     queuing_delay |-> 0, jitter |-> 0,
     bw_capacity |-> cap, bw_used |-> 0]

\* the diamond S1->S2, S1->S3, S2->S4, S3->S4, 100 Mbps, 5 ms per link
DiamondLinks ==
    << MkLink("1", "2", 1, 5000, 100),
       MkLink("1", "3", 2, 5000, 100),
       MkLink("2", "4", 1, 5000, 100),
       MkLink("3", "4", 1, 5000, 100) >>

\* a route holds references to Link objects: the key (src, dst, port_out) of the link
LinkKey(l) == <<l.src, l.dst, l.port_out>>

LinkOf(ls, key) == ls[CHOOSE i \in 1..Len(ls) : LinkKey(ls[i]) = key]

----------------------------------------------------------------------------
(* RoutingEngine._build_graph: an undirected nx.Graph; adding an edge that   *)
(* exists keeps its position and overwrites weight and link_obj              *)

\* a variant of the weight that takes a link without capacity as an idle link
LinkWeightIdleWithoutCapacity(l) ==
    IF l.bw_capacity > 0 /\ l.bw_used < l.bw_capacity
    THEN ((l.prop_delay + l.switch_delay + l.proc_delay) * l.bw_capacity)
            \div (l.bw_capacity - l.bw_used)
    ELSE IF l.bw_capacity > 0
    THEN 100 * (l.prop_delay + l.switch_delay + l.proc_delay)
    ELSE l.prop_delay + l.switch_delay + l.proc_delay

LinkWeight(l) ==
    LET cost == l.prop_delay + l.switch_delay + l.proc_delay
    IN  IF l.bw_capacity > 0 /\ l.bw_used < l.bw_capacity
        THEN (cost * l.bw_capacity) \div (l.bw_capacity - l.bw_used)
        ELSE 100 * cost

SameEdge(e, u, v) == (e.u = u /\ e.v = v) \/ (e.u = v /\ e.v = u)

AddNode(nodes, n) == IF InSeq(n, nodes) THEN nodes ELSE Append(nodes, n)

AddEdge(G, u, v, w, obj) ==
    LET e == [u |-> u, v |-> v, weight |-> w, link_obj |-> obj]
    IN  [nodes |-> AddNode(AddNode(G.nodes, u), v),
         edges |-> IF \E i \in 1..Len(G.edges) : SameEdge(G.edges[i], u, v)
                   THEN [i \in 1..Len(G.edges) |->
                           IF SameEdge(G.edges[i], u, v)
                           THEN [G.edges[i] EXCEPT !.weight = w, !.link_obj = obj]
                           ELSE G.edges[i]]
                   ELSE Append(G.edges, e)]

RECURSIVE BuildFrom(_, _)
BuildFrom(G, ls) ==
    IF ls = <<>> THEN G
    ELSE LET l == Head(ls)
         IN  BuildFrom(AddEdge(G, l.src, l.dst, LinkWeight(l), LinkKey(l)), Tail(ls))

BuildGraph(ls) == BuildFrom([nodes |-> <<>>, edges |-> <<>>], ls)

HasEdge(G, u, v) == \E i \in 1..Len(G.edges) : SameEdge(G.edges[i], u, v)

EdgeOf(G, u, v) == G.edges[CHOOSE i \in 1..Len(G.edges) : SameEdge(G.edges[i], u, v)]

OtherEnd(e, v) == IF e.u = v THEN e.v ELSE e.u

\* G[v]: the neighbours of v in adjacency (insertion) order
RECURSIVE AdjFrom(_, _)
AdjFrom(es, v) ==
    IF es = <<>> THEN <<>>
    ELSE IF Head(es).u = v \/ Head(es).v = v
         THEN <<OtherEnd(Head(es), v)>> \o AdjFrom(Tail(es), v)
         ELSE AdjFrom(Tail(es), v)

Adj(G, v) == AdjFrom(G.edges, v)

----------------------------------------------------------------------------
(* nx.dijkstra_path: binary heap of (distance, counter, node); a node's path *)
(* is replaced only by a strictly shorter one                                *)

RECURSIVE Relax(_, _, _, _)
Relax(G, v, nbrs, st) ==
    IF nbrs = <<>> THEN st
    ELSE LET u  == Head(nbrs)
             vu == st.dist[v] + EdgeOf(G, v, u).weight
         IN  IF u \in DOMAIN st.dist THEN Relax(G, v, Tail(nbrs), st)
             ELSE IF u \notin DOMAIN st.seen \/ vu < st.seen[u]
             THEN Relax(G, v, Tail(nbrs),
                        [st EXCEPT !.seen   = Put(st.seen, u, vu),
                                   !.fringe = st.fringe \cup {<<vu, st.cnt, u>>},
                                   !.cnt    = st.cnt + 1,
                                   !.paths  = Put(st.paths, u, Append(st.paths[v], u))])
             ELSE Relax(G, v, Tail(nbrs), st)

HeapLE(a, b) == a[1] < b[1] \/ (a[1] = b[1] /\ a[2] <= b[2])

RECURSIVE DijkstraLoop(_, _, _)
DijkstraLoop(G, target, st) ==
    IF st.fringe = {} THEN st
    ELSE LET top  == CHOOSE e \in st.fringe : \A o \in st.fringe : HeapLE(e, o)
             v    == top[3]
             rest == st.fringe \ {top}
         IN  IF v \in DOMAIN st.dist
             THEN DijkstraLoop(G, target, [st EXCEPT !.fringe = rest])
             ELSE LET st1 == [st EXCEPT !.fringe = rest,
                                        !.dist = Put(st.dist, v, top[1])]
                  IN  IF v = target THEN st1
                      ELSE DijkstraLoop(G, target, Relax(G, v, Adj(G, v), st1))

\* target "" never matches a node: the search runs to exhaustion
Dijkstra(G, source, target) ==
    DijkstraLoop(G, target,
                 [dist |-> <<>>, seen |-> (source :> 0), fringe |-> {<<0, 0, source>>},
                  cnt |-> 1, paths |-> (source :> <<source>>)])

NoPath == <<"NoPath">>

\* nx.dijkstra_path(G, src, dst): the node path, or NoPath for nx.NetworkXNoPath
PathIn(st, target) == IF target \in DOMAIN st.dist THEN st.paths[target] ELSE NoPath

\* nx.NodeNotFound: the source is not a node of the graph
NodeNotFound == <<"NodeNotFound">>

DijkstraPath(G, source, target) ==
    IF ~InSeq(source, G.nodes) THEN NodeNotFound
    ELSE PathIn(Dijkstra(G, source, target), target)

\* RoutingEngine._nodes_to_links
RECURSIVE NodesToLinks(_, _)
NodesToLinks(G, nodes) ==
    IF Len(nodes) < 2 THEN <<>>
    ELSE (IF HasEdge(G, nodes[1], nodes[2])
          THEN <<EdgeOf(G, nodes[1], nodes[2]).link_obj>> ELSE <<>>)
         \o NodesToLinks(G, Tail(nodes))

----------------------------------------------------------------------------
(* networkx steiner_tree (Kou et al.): metric closure over all nodes, MST of  *)
(* the closure restricted to the terminals, expansion of the closure edges    *)
(* into their shortest paths, MST of that subgraph, removal of non-terminal   *)
(* leaves. An undirected edge is the set of its two end nodes.                *)

IndexOf(x, s) == CHOOSE i \in 1..Len(s) : s[i] = x

\* stable insertion sort of records by (k1, k2)
KeyLE(a, b) == a.k1 < b.k1 \/ (a.k1 = b.k1 /\ a.k2 <= b.k2)

RECURSIVE InsertSorted(_, _)
InsertSorted(s, e) ==
    IF s = <<>> THEN <<e>>
    ELSE IF KeyLE(Head(s), e) THEN <<Head(s)>> \o InsertSorted(Tail(s), e)
         ELSE <<e>> \o s

RECURSIVE SortByKey(_)
SortByKey(s) ==
    IF s = <<>> THEN <<>>
    ELSE InsertSorted(SortByKey(SubSeq(s, 1, Len(s) - 1)), s[Len(s)])

\* Kruskal over the sorted edge records [u, v, ...]: comp maps a node to its component
RECURSIVE Kruskal(_, _)
Kruskal(es, comp) ==
    IF es = <<>> THEN <<>>
    ELSE LET e == Head(es)
         IN  IF comp[e.u] = comp[e.v] THEN Kruskal(Tail(es), comp)
             ELSE <<e>> \o Kruskal(Tail(es),
                                   [n \in DOMAIN comp |->
                                      IF comp[n] = comp[e.v] THEN comp[e.u] ELSE comp[n]])

MinimumSpanningEdges(es) ==
    LET ns == {es[i].u : i \in 1..Len(es)} \cup {es[i].v : i \in 1..Len(es)}
    IN  Kruskal(SortByKey(es), [n \in ns |-> n])

\* nx.NetworkXError of metric_closure: some node is unreachable from the first one
Connected(G) ==
    G.nodes = <<>> \/ Range(G.nodes) \subseteq DOMAIN Dijkstra(G, G.nodes[1], "").dist

\* metric_closure adds the edge (u, v) for u in G order and v in the iteration order of
\* the set of the nodes not yet processed: the node order and adjacency order of M
MNodes(G, order) ==
    <<G.nodes[1]>> \o SelectSeq(order, LAMBDA n : InSeq(n, G.nodes) /\ n # G.nodes[1])

MAdj(G, order, n) ==
    SelectSeq(G.nodes, LAMBDA m : IndexOf(m, G.nodes) < IndexOf(n, G.nodes))
    \o SelectSeq(order, LAMBDA m : InSeq(m, G.nodes)
                                   /\ IndexOf(m, G.nodes) > IndexOf(n, G.nodes))

\* iteration of the subgraph view H = M.subgraph(terminals): over the terminal set
\* when it is less than half as long as the underlying dict, else over the dict
Filtered(atlas, terminals, order) ==
    IF 2 * Cardinality(terminals) < Len(atlas)
    THEN SelectSeq(order, LAMBDA n : n \in terminals /\ InSeq(n, atlas))
    ELSE SelectSeq(atlas, LAMBDA n : n \in terminals)

\* H.edges(): an edge is reported at the first of its end nodes that is visited
RECURSIVE HEdgesIter(_, _, _, _, _)
HEdgesIter(G, terminals, order, ns, seen) ==
    IF ns = <<>> THEN <<>>
    ELSE [i \in 1..Len(SelectSeq(Filtered(MAdj(G, order, Head(ns)), terminals, order),
                                 LAMBDA m : m \notin seen)) |->
            {Head(ns), SelectSeq(Filtered(MAdj(G, order, Head(ns)), terminals, order),
                                 LAMBDA m : m \notin seen)[i]}]
         \o HEdgesIter(G, terminals, order, Tail(ns), seen \cup {Head(ns)})

HEdges(G, terminals, order) ==
    HEdgesIter(G, terminals, order, Filtered(MNodes(G, order), terminals, order), {})

\* the closure edges between terminals: distance and path as found from the end node
\* that comes first in G; edges of equal distance keep their H.edges() order (k2)
ClosureEdge(u, v, st, hedges) ==
    [u |-> u, v |-> v, k1 |-> st.dist[v], k2 |-> IndexOf({u, v}, hedges),
     path |-> st.paths[v]]

RECURSIVE ClosureFrom(_, _, _, _)
ClosureFrom(u, st, vs, hedges) ==
    IF vs = <<>> THEN <<>>
    ELSE <<ClosureEdge(u, Head(vs), st, hedges)>> \o ClosureFrom(u, st, Tail(vs), hedges)

RECURSIVE ClosureOver(_, _, _)
ClosureOver(G, ts, hedges) ==
    IF Len(ts) < 2 THEN <<>>
    ELSE ClosureFrom(Head(ts), Dijkstra(G, Head(ts), ""), Tail(ts), hedges)
         \o ClosureOver(G, Tail(ts), hedges)

ClosureEdges(G, terminals, order) ==
    ClosureOver(G, SelectSeq(G.nodes, LAMBDA n : n \in terminals),
                HEdges(G, terminals, order))

PathEdges(path) == {{path[i], path[i + 1]} : i \in 1..(Len(path) - 1)}

\* Graph.edges() of the edge-induced subgraph: nodes in G order, neighbours in
\* adjacency order, an edge reported at its first end node
RECURSIVE EdgesIter(_, _, _, _)
EdgesIter(G, tree, ns, seen) ==
    IF ns = <<>> THEN <<>>
    ELSE LET n == Head(ns)
             mine == SelectSeq(Adj(G, n), LAMBDA m : m \notin seen /\ {n, m} \in tree)
         IN  [i \in 1..Len(mine) |-> [u |-> n, v |-> mine[i]]]
             \o EdgesIter(G, tree, Tail(ns), seen \cup {n})

GraphEdges(G, tree) == EdgesIter(G, tree, G.nodes, {})

\* _remove_nonterminal_leaves: one pass "for n in list(G.nodes)" over the nodes ns of
\* the tree; a node that is no terminal and has degree 1 when it is visited is removed
\* with its edge, and a node that this leaves with degree 1 is removed only when the
\* pass visits it later
RECURSIVE RemoveNonterminalLeaves(_, _, _)
RemoveNonterminalLeaves(ns, tree, terminals) ==
    IF ns = <<>> THEN tree
    ELSE RemoveNonterminalLeaves(
             Tail(ns),
             IF Head(ns) \notin terminals
                /\ Cardinality({e \in tree : Head(ns) \in e}) = 1
             THEN {e \in tree : Head(ns) \notin e}
             ELSE tree,
             terminals)

\* T_H = G.edge_subgraph(T_S).copy() and the removal of its leaves: the nodes of the
\* copy are those of the subgraph view, in its iteration order
Pruned(G, tree, terminals, order) ==
    RemoveNonterminalLeaves(Filtered(G.nodes, UNION tree, order), tree, terminals)

UsedEdges(mst) == UNION {PathEdges(mst[i].path) : i \in 1..Len(mst)}

WeightKeyed(G, gs) ==
    [i \in 1..Len(gs) |->
        [u |-> gs[i].u, v |-> gs[i].v, k1 |-> EdgeOf(G, gs[i].u, gs[i].v).weight, k2 |-> i]]

EdgeSet(mst) == {{mst[i].u, mst[i].v} : i \in 1..Len(mst)}

KouSteinerTree(G, terminals, order) ==
    Pruned(G,
           EdgeSet(MinimumSpanningEdges(
               WeightKeyed(G, GraphEdges(G,
                   UsedEdges(MinimumSpanningEdges(ClosureEdges(G, terminals, order))))))),
           terminals, order)

\* for u, v in st_tree.edges(): path_links.append(G[u][v]['link_obj'])
LinkObjs(G, es) == [i \in 1..Len(es) |-> EdgeOf(G, es[i].u, es[i].v).link_obj]

SteinerLinks(G, terminals, order) ==
    LinkObjs(G, GraphEdges(G, KouSteinerTree(G, terminals, order)))

\* the fallback: union of the unicast paths, each link once, unreachable ones skipped
\* the value that stands for an exception that leaves calculate_path
Raised == << <<"raised", "", 0>> >>

\* lines 59-64: only nx.NetworkXNoPath is caught
LinksOfPath(G, p) ==
    IF p = NoPath THEN <<>> ELSE IF p = NodeNotFound THEN Raised ELSE NodesToLinks(G, p)

\* lines 80-85: every exception is passed over
LinksIfAny(G, p) == IF p \in {NoPath, NodeNotFound} THEN <<>> ELSE NodesToLinks(G, p)

\* the links of a path appended whether the list holds them or not
AppendAll(acc, pl) == acc \o pl

AppendFresh(acc, pl) == acc \o SelectSeq(pl, LAMBDA l : ~InSeq(l, acc))

RECURSIVE UnionOfPaths(_, _, _, _)
UnionOfPaths(G, src, dsts, acc) ==
    IF dsts = <<>> THEN acc
    ELSE UnionOfPaths(G, src, Tail(dsts),
                      AppendFresh(acc, LinksIfAny(G, DijkstraPath(G, src, Head(dsts)))))

\* RoutingEngine.calculate_path on the graph G, after the destinations were filtered
PathOrTree(G, src, valid_dsts, order) ==
    IF valid_dsts = <<>> THEN <<>>
    ELSE IF Len(valid_dsts) = 1
    THEN LinksOfPath(G, DijkstraPath(G, src, valid_dsts[1]))
    ELSE IF Connected(G)
    THEN SteinerLinks(G, {src} \cup Range(valid_dsts), order)
    ELSE UnionOfPaths(G, src, valid_dsts, <<>>)

\* a variant of calculate_path without the check of the source
CalculatePathUnguarded(G, src, dsts, order) ==
    PathOrTree(G, src, SelectSeq(dsts, LAMBDA d : InSeq(d, G.nodes)), order)

CalculatePathIn(G, src, dsts, order) ==
    IF ~InSeq(src, G.nodes) THEN <<>>
    ELSE PathOrTree(G, src, SelectSeq(dsts, LAMBDA d : InSeq(d, G.nodes)), order)

\* RoutingEngine.calculate_path over the links ls: the list of Link references
CalculatePath(ls, src, dsts, order) == CalculatePathIn(BuildGraph(ls), src, dsts, order)

\* nx.dijkstra_path_length, or -1 for nx.NetworkXNoPath
DistIn(st, target) == IF target \in DOMAIN st.dist THEN st.dist[target] ELSE -1

DijkstraPathLength(G, source, target) == DistIn(Dijkstra(G, source, target), target)

MaxOf(ds) == CHOOSE d \in ds \cup {0} : \A e \in ds \cup {0} : e <= d

\* RoutingEngine.select_optimal_rp: "" stands for None, -1 for float('inf')
BetterRp(node, ds, best) ==
    IF -1 \in ds THEN best
    ELSE IF best.dist = -1 \/ MaxOf(ds) < best.dist
    THEN [rp |-> node, dist |-> MaxOf(ds)]
    ELSE best

RECURSIVE RpScan(_, _, _, _)
RpScan(G, ns, valid_subs, best) ==
    IF ns = <<>> THEN best.rp
    ELSE RpScan(G, Tail(ns), valid_subs,
                BetterRp(Head(ns),
                         {DijkstraPathLength(G, Head(ns), sub) : sub \in Range(valid_subs)},
                         best))

SelectOptimalRpIn(G, subs) ==
    IF G.nodes = <<>> \/ ~(\E i \in 1..Len(subs) : InSeq(subs[i], G.nodes)) THEN ""
    ELSE RpScan(G, G.nodes, SelectSeq(subs, LAMBDA x : InSeq(x, G.nodes)),
                [rp |-> "", dist |-> -1])

SelectOptimalRp(ls, subs) == SelectOptimalRpIn(BuildGraph(ls), subs)

----------------
(* schedulability/analysis.py: interference and the Trajectory Approach *)

\* any(l.src == link.src and l.dst == link.dst for l in flow.route_links)
SharesLink(key, flow) ==
    \E i \in 1..Len(flow.route_links) :
        flow.route_links[i][1] = key[1] /\ flow.route_links[i][2] = key[2]

\* an interference test that leaves out the flows of equal priority
GetInterferingFlowsOfHigherPriority(key, subject_flow, all_flows) ==
    SelectSeq(all_flows, LAMBDA f : /\ f.ft_i # subject_flow.ft_i
                                    /\ SharesLink(key, f)
                                    /\ f.pi > subject_flow.pi)

\* SchedulabilityUtils.get_interfering_flows_on_link
GetInterferingFlowsOnLink(key, subject_flow, all_flows) ==
    SelectSeq(all_flows, LAMBDA f : /\ f.ft_i # subject_flow.ft_i
                                    /\ SharesLink(key, f)
                                    /\ f.pi >= subject_flow.pi)

\* the interference of a link with the period of the flow as the window
RECURSIVE LinkInterferenceOverPeriod(_, _)
LinkInterferenceOverPeriod(flow, int_flows) ==
    IF int_flows = <<>> THEN 0
    ELSE Ceil(flow.ti, Head(int_flows).ti) * Head(int_flows).ci
         + LinkInterferenceOverPeriod(flow, Tail(int_flows))

\* _compute_path_wcrt: hardware delay + ci + per-hop interference over window di
RECURSIVE LinkInterference(_, _)
LinkInterference(flow, int_flows) ==
    IF int_flows = <<>> THEN 0
    ELSE Ceil(flow.di, Head(int_flows).ti) * Head(int_flows).ci
         + LinkInterference(flow, Tail(int_flows))

ComputePathWcrt(ls, flow, all_flows, path) ==
    IF path = <<>> THEN 0
    ELSE LET hw(k) == LinkOf(ls, k).prop_delay + LinkOf(ls, k).switch_delay
                      + LinkOf(ls, k).proc_delay
         IN  SumSeq([i \in 1..Len(path) |-> hw(path[i])]) + flow.ci
             + SumSeq([i \in 1..Len(path) |->
                         LinkInterference(flow,
                             GetInterferingFlowsOnLink(path[i], flow, all_flows))])

\* G.succ[v] (forward TRUE) or G.pred[v] (forward FALSE) of the DiGraph of the
\* route: the neighbours in the order in which their first link was added
RECURSIVE Neighbours(_, _, _, _)
Neighbours(route, v, forward, acc) ==
    IF route = <<>> THEN acc
    ELSE LET k == Head(route)
             w == IF forward THEN k[2] ELSE k[1]
             at == IF forward THEN k[1] ELSE k[2]
         IN  Neighbours(Tail(route), v, forward,
                        IF at = v /\ ~InSeq(w, acc) THEN Append(acc, w) ELSE acc)

\* "for w in Gsucc[v]" of the two-sided search: w enters the fringe and the
\* predecessor map of this side when it is new to it, and the search ends at the
\* first w that the other side knows
RECURSIVE ExpandNode(_, _, _, _)
ExpandNode(v, ws, st, other) ==
    IF st.found # <<>> \/ ws = <<>> THEN st
    ELSE LET w == Head(ws)
             st1 == IF w \in DOMAIN st.seen THEN st
                    ELSE [st EXCEPT !.seen = Put(st.seen, w, v),
                                    !.fringe = Append(st.fringe, w)]
         IN  ExpandNode(v, Tail(ws),
                        IF w \in DOMAIN other THEN [st1 EXCEPT !.found = <<w>>] ELSE st1,
                        other)

\* "for v in this_level"
RECURSIVE ExpandLevel(_, _, _, _, _)
ExpandLevel(route, level, forward, st, other) ==
    IF st.found # <<>> \/ level = <<>> THEN st
    ELSE ExpandLevel(route, Tail(level), forward,
                     ExpandNode(Head(level), Neighbours(route, Head(level), forward, <<>>),
                                st, other),
                     other)

\* the chain of a predecessor map from w back to the end of the search
RECURSIVE Chain(_, _)
Chain(seen, w) == IF w = "None" THEN <<>> ELSE <<w>> \o Chain(seen, seen[w])

Reverse(s) == [i \in 1..Len(s) |-> s[Len(s) + 1 - i]]

\* nx.shortest_path(G, src, dst) without weight: the breadth-first search from both
\* ends (networkx bidirectional_shortest_path), the smaller fringe expanded first and
\* the forward one on a tie; NoPath stands for NetworkXNoPath
RECURSIVE Bfs(_, _, _, _, _)
Bfs(route, pred, succ, forward_fringe, reverse_fringe) ==
    IF forward_fringe = <<>> \/ reverse_fringe = <<>> THEN NoPath
    ELSE IF Len(forward_fringe) <= Len(reverse_fringe)
    THEN LET st == ExpandLevel(route, forward_fringe, TRUE,
                               [seen |-> pred, fringe |-> <<>>, found |-> <<>>], succ)
         IN  IF st.found # <<>>
             THEN Reverse(Chain(st.seen, st.found[1])) \o Tail(Chain(succ, st.found[1]))
             ELSE Bfs(route, st.seen, succ, st.fringe, reverse_fringe)
    ELSE LET st == ExpandLevel(route, reverse_fringe, FALSE,
                               [seen |-> succ, fringe |-> <<>>, found |-> <<>>], pred)
         IN  IF st.found # <<>>
             THEN Reverse(Chain(pred, st.found[1])) \o Tail(Chain(st.seen, st.found[1]))
             ELSE Bfs(route, pred, st.seen, forward_fringe, st.fringe)

\* NoPath stands for NodeNotFound too: the caller swallows both
ShortestPath(route, src, dst) ==
    LET ns == {route[i][1] : i \in 1..Len(route)} \cup {route[i][2] : i \in 1..Len(route)}
    IN  IF src \notin ns \/ dst \notin ns THEN NoPath
        ELSE IF src = dst THEN <<src>>
        ELSE Bfs(route, (src :> "None"), (dst :> "None"), <<src>>, <<dst>>)

\* G[u][v]['link_obj'] of the DiGraph: the last route link added for (u, v)
DiLinkObj(route, u, v) ==
    route[CHOOSE i \in 1..Len(route) :
            /\ route[i][1] = u /\ route[i][2] = v
            /\ \A j \in (i + 1)..Len(route) : ~(route[j][1] = u /\ route[j][2] = v)]

BranchLinks(route, nodes) ==
    [i \in 1..(Len(nodes) - 1) |-> DiLinkObj(route, nodes[i], nodes[i + 1])]

\* _get_max_branch_wcrt
BranchWcrt(ls, flow, all_flows, p) ==
    IF p = NoPath THEN 0
    ELSE ComputePathWcrt(ls, flow, all_flows, BranchLinks(flow.route_links, p))

Max2(a, b) == IF a > b THEN a ELSE b

RECURSIVE MaxBranchWcrt(_, _, _, _, _)
MaxBranchWcrt(ls, flow, all_flows, targets, max_val) ==
    IF targets = <<>> THEN max_val
    ELSE MaxBranchWcrt(ls, flow, all_flows, Tail(targets),
            Max2(BranchWcrt(ls, flow, all_flows,
                            ShortestPath(flow.route_links, flow.src_ip, Head(targets))),
                 max_val))

\* TrajectoryApproach.calculate_wcrt
TaWcrt(ls, flow, all_flows) ==
    (IF flow.dst_ips = <<>> \/ flow.route_links = <<>> THEN 0
     ELSE MaxBranchWcrt(ls, flow, all_flows, flow.dst_ips, 0))
    + (IF flow.qi > 0 THEN flow.processing_delay ELSE 0)

\* AdmissionControl.check_admissibility: "if wcrt > flow.di" rejects
Violates(wcrt, di) == wcrt > di

CheckAdmissibility(ls, new_flow, existing_flows) ==
    LET candidate_set == existing_flows \o <<new_flow>>
    IN  /\ ~Violates(TaWcrt(ls, new_flow, candidate_set), new_flow.di)
        /\ \A i \in 1..Len(existing_flows) :
              ~Violates(TaWcrt(ls, existing_flows[i], candidate_set), existing_flows[i].di)

----------------------------------------------------------------------------
(* Inputs of the model *)

\* the handler invocations of one run
MaxOps == 3

\* how many of them are in flight at once, and among how many of the first
\* invocations of a run one is entered while another is in flight
MaxInFlight == 2

MaxConcOps == 2

Topics == {"tA", "tB"}

TopicOrder == <<"tA", "tB">>

\* rt_attributes of the POST /mrt/register_flow bodies that are tried
AttrChoices ==
    { [qi |-> 0, ci |-> 500,  pi |-> 10, ti |-> 20000, di |-> 10000, bwi |-> 1,
       dst_ips |-> <<"4">>, processing_delay |-> 0],
      [qi |-> 1, ci |-> 5000, pi |-> 5,  ti |-> 50000, di |-> 50000, bwi |-> 10,
       dst_ips |-> <<"4">>, processing_delay |-> 0],
      [qi |-> 0, ci |-> 500,  pi |-> 10, ti |-> 20000, di |-> 50000, bwi |-> 1,
       dst_ips |-> <<"3", "4">>, processing_delay |-> 0],
      [qi |-> 2, ci |-> 2000, pi |-> 10, ti |-> 20000, di |-> 20000, bwi |-> 5,
       dst_ips |-> <<>>, processing_delay |-> 1500],
      [qi |-> 0, ci |-> 500,  pi |-> 10, ti |-> 20000, di |-> 10000, bwi |-> 1,
       dst_ips |-> <<"9">>, processing_delay |-> 0] }

\* (rt_attributes, src_ip, broker_ip) of the requests; broker_ip "" stands for none
RequestChoices ==
    { [a |-> a, src_ip |-> "1",
       broker_ip |-> IF a.qi = 1 THEN "3" ELSE ""] : a \in AttrChoices }

\* subscriber_ip of the POST /mrt/register_subscriber bodies
SubChoices == {"2", "4"}

\* abs(hash(ft_i)) per topic: distinct group ids, or the same one modulo 2000
HashChoices ==
    { [t \in Topics |-> IF t = "tA" THEN 7 ELSE 12],
      [t \in Topics |-> IF t = "tA" THEN 7 ELSE 2007] }

\* the iteration order of a set of the node labels depends on the hash seed of the
\* process: one order for each way in which the 24 orders of the labels tell on a
\* result of calculate_path over the topologies of the model
SetOrderChoices ==
    { <<"1", "2", "3", "4">>, <<"4", "3", "2", "1">>, <<"3", "4", "1", "2">>,
      <<"1", "3", "2", "4">>, <<"4", "2", "1", "3">> }

\* from node 1 on the diamond the 24 orders tell on a result of calculate_path in two
\* ways, by whether "3" comes before "2" and "4" or not: one order for each
DiamondSetOrders == { <<"1", "2", "3", "4">>, <<"3", "4", "1", "2">> }

----------------------------------------------------------------------------
(* common.rt_attributes.RTAttributes and common.of_db (OF-DB) *)

RTAttributes(topic, a) ==
    [ft_i |-> topic, qi |-> a.qi, ci |-> a.ci, pi |-> a.pi, ti |-> a.ti, di |-> a.di,
     bwi |-> a.bwi, src_ip |-> "", dst_ips |-> a.dst_ips, broker_ips |-> <<>>,
     route_links |-> <<>>, num_hops |-> 0, multicast_group_id |-> 0,
     processing_delay |-> a.processing_delay, measured_jitter |-> 0]

RangeOf(f) == {f[x] : x \in DOMAIN f}

\* the objects still referenced by the registry or by a handler in flight
Collect(fl, ob, refs) == [i \in {j \in DOMAIN ob : j \in RangeOf(fl) \cup refs} |-> ob[i]]

NewId(ob) == CHOOSE i \in 1..(Cardinality(DOMAIN ob) + 1) :
                 i \notin DOMAIN ob /\ \A j \in 1..(i - 1) : j \in DOMAIN ob

\* of_db.add_flow: flows[topic] = rt_attrs (a duplicate replaces the previous entry)
AddFlow(fl, topic, id) == Put(fl, topic, id)

\* of_db.get_all_flows(): topic -> RTAttributes
GetAllFlows == [t \in DOMAIN flows |-> objs[flows[t]]]

\* list(of_db.get_all_flows().values()); the verdict of admission and the bounds do
\* not depend on the order of the list
FlowValues(fl, ob) ==
    LET ts == SelectSeq(TopicOrder, LAMBDA t : t \in DOMAIN fl)
    IN  [i \in 1..Len(ts) |-> ob[fl[ts[i]]]]

\* of_db.add_subscriber: the subscriber set of the topic, and dst_ips of its flow
AddSubscriberSet(subs, topic, sub_ip) ==
    Put(subs, topic, (IF topic \in DOMAIN subs THEN subs[topic] ELSE {}) \cup {sub_ip})

AddSubscriberDst(fl, ob, topic, sub_ip) ==
    IF topic \in DOMAIN fl /\ ~InSeq(sub_ip, ob[fl[topic]].dst_ips)
    THEN [ob EXCEPT ![fl[topic]].dst_ips = Append(@, sub_ip)]
    ELSE ob

----------------------------------------------------------------------------
(* The switch tables, as the messages of the data-plane programmer change    *)
(* them. T is [groups, meters, rules].                                       *)

\* install_meter: OFPMeterMod with OFPMC_ADD; a switch refuses an id it already has
InstallMeter(T, dpid, meter_id, bandwidth_mbps) ==
    IF \E m \in T.meters : m.dpid = dpid /\ m.mid = meter_id THEN T
    ELSE [T EXCEPT !.meters =
            @ \cup {[dpid |-> dpid, mid |-> meter_id, rate |-> bandwidth_mbps * 1000]}]

\* install_multicast_group: OFPGroupMod with OFPGC_ADD, type ALL, one bucket per port
InstallMulticastGroup(T, dpid, group_id, ports) ==
    IF \E g \in T.groups : g.dpid = dpid /\ g.gid = group_id THEN T
    ELSE [T EXCEPT !.groups =
            @ \cup {[dpid |-> dpid, gid |-> group_id, ports |-> ports]}]

\* add_flow: OFPFlowMod (OFPFC_ADD) replaces the entry of the same match and priority
AddFlowRule(T, dpid, priority, match, group_id, meter_id) ==
    [T EXCEPT !.rules =
        {r \in @ : ~(r.dpid = dpid /\ r.priority = priority /\ r.match = match)}
        \cup {[dpid |-> dpid, priority |-> priority, match |-> match,
               gid |-> group_id, mid |-> meter_id]}]

\* _install_multicast_tree, step 1: fwd_map as the list of its items
RECURSIVE FwdMapFrom(_, _, _)
FwdMapFrom(ls, path_links, acc) ==
    IF path_links = <<>> THEN acc
    ELSE LET l == LinkOf(ls, Head(path_links))
             dpid == DpidOf(l.src)
         IN  FwdMapFrom(ls, Tail(path_links),
                IF \E i \in 1..Len(acc) : acc[i].dpid = dpid
                THEN [i \in 1..Len(acc) |->
                        IF acc[i].dpid = dpid
                        THEN [acc[i] EXCEPT !.ports = @ \cup {l.port_out}]
                        ELSE acc[i]]
                ELSE Append(acc, [dpid |-> dpid, ports |-> {l.port_out}]))

FwdMap(ls, path_links) == FwdMapFrom(ls, path_links, <<>>)

\* _install_multicast_tree, step 2: the group id (also used as the meter id)
GroupIdOf(flow, h) ==
    IF flow.multicast_group_id = 0 THEN (h[flow.ft_i] % 2000) + 1
    ELSE flow.multicast_group_id

MatchOf(flow) == IF flow.dst_ips # <<>> THEN flow.dst_ips[1] ELSE "224.0.0.1"

\* "if dpid not in self.datapaths: continue": the items of fwd_map from the first
\* one on whose switch is connected
RECURSIVE SkipAbsent(_, _)
SkipAbsent(fwd, dps) ==
    IF fwd = <<>> \/ Head(fwd).dpid \in dps THEN fwd ELSE SkipAbsent(Tail(fwd), dps)

----------------------------------------------------------------------------
(* RyuMRTApp.register_rt_flow and handle_new_subscriber, in the pieces that  *)
(* run between two suspension points                                        *)

\* lines 201-208: the RTAttributes object of the request
NewFlowObject(topic, a, src_ip, broker_ip) ==
    LET rt == [RTAttributes(topic, a) EXCEPT !.src_ip = src_ip]
    IN  IF broker_ip # "" /\ ~InSeq(broker_ip, rt.broker_ips)
        THEN [rt EXCEPT !.broker_ips = Append(@, broker_ip)]
        ELSE rt

\* lines 216-217: admission of the object against everything in the registry
Admit(ls, fl, ob, id) == CheckAdmissibility(ls, ob[id], FlowValues(fl, ob))

\* lines 222-224: the route of the flow
WithRoute(rt, path_links) ==
    [rt EXCEPT !.route_links = path_links, !.num_hops = Len(path_links)]

\* lines 233-236: the rendezvous point, when the flow names no broker
WithBroker(rt, rp) ==
    IF rt.qi # 0 /\ rt.broker_ips = <<>> /\ rp # ""
    THEN [rt EXCEPT !.broker_ips = <<rp>>] ELSE rt

\* lines 161-164: the group id is stored in the flow
WithGroupId(rt, gid) == [rt EXCEPT !.multicast_group_id = gid]

\* lines 227-244: the tree that is programmed
TreeOf(ls, order, rt) ==
    IF rt.qi = 0 THEN rt.route_links
    ELSE CalculatePath(ls, rt.src_ip, rt.broker_ips, order)

Programmed(rt, tree, h) ==
    [obj |-> WithGroupId(rt, GroupIdOf(rt, h)), tree |-> tree, gid |-> GroupIdOf(rt, h)]

Routed(ls, order, h, rt) == Programmed(rt, TreeOf(ls, order, rt), h)

\* lines 222-244 up to the loop of _install_multicast_tree: the object with its route,
\* brokers and group id, and the tree that is programmed
RouteOfRegistration(ls, order, h, rt) ==
    Routed(ls, order, h,
           WithBroker(WithRoute(rt, CalculatePath(ls, rt.src_ip, rt.dst_ips, order)),
                      IF rt.qi # 0 /\ rt.broker_ips = <<>>
                      THEN SelectOptimalRp(ls, rt.dst_ips) ELSE ""))

\* a variant of the graft that keeps the links of the previous tree in front of the new
GraftedAppending(flow, new_links, h) ==
    Programmed([flow EXCEPT !.route_links = @ \o new_links], new_links, h)

\* a variant of the graft that programs the new tree and keeps the stored route
GraftedStale(flow, new_links, h) == Programmed(flow, new_links, h)

\* lines 264-270 up to the loop of _install_multicast_tree
Grafted(flow, new_links, h) ==
    Programmed([flow EXCEPT !.route_links = new_links], new_links, h)

RouteOfGraft(ls, order, h, flow) ==
    Grafted(flow, CalculatePath(ls, flow.src_ip, flow.dst_ips, order), h)

Tables == [groups |-> sw_groups, meters |-> sw_meters, rules |-> sw_rules]

SetTables(T) == /\ sw_groups' = T.groups
                /\ sw_meters' = T.meters
                /\ sw_rules'  = T.rules

RegArgs(a, src_ip, broker_ip) == [a |-> a, src_ip |-> src_ip, broker_ip |-> broker_ip]

----------------------------------------------------------------------------
(* The handlers of the application. A handler runs from one suspension point *)
(* to the next in one step: it is suspended where it calls into OF-DB (lock  *)
(* acquisition) and where it sends a message to a switch (network I/O). No   *)
(* lock is held from one step to the next, and other handlers run in between *)

Boot ==
    /\ links = DiamondLinks
    /\ flows = <<>>
    /\ objs = <<>>
    /\ subscribers = <<>>
    /\ datapaths = {1, 2, 4}
    /\ sw_groups = {}
    /\ sw_meters = {}
    /\ sw_rules = {[dpid |-> d, priority |-> 0, match |-> "*", gid |-> 0, mid |-> 0]
                     : d \in {1, 2, 4}}
    /\ calls = {}
    /\ ops = 0
    /\ reg = [t \in Topics |-> [status |-> "none"]]
    /\ last = [op |-> "init"]

Init ==
    /\ Boot
    /\ topic_hash \in HashChoices
    /\ set_order \in DiamondSetOrders
    /\ adm = [pc |-> "none"]
    /\ http = [handler |-> "none", status |-> 0]
    /\ pathcall = [pc |-> "none"]
    /\ msdp = [pc |-> "none"]
    /\ monitor = [pc |-> "none"]

\* what no handler of the application writes
HandlerFrame == UNCHANGED <<links, topic_hash, set_order, adm, pathcall, msdp, monitor>>

\* history of a call: what the registry, the subscribers, the tables and the verdicts
\* were when the handler was entered
Snapshot ==
    [flows |-> GetAllFlows, subscribers |-> subscribers, tables |-> Tables, reg |-> reg,
     links |-> links]

\* the calls in flight when another handler runs: they have not run alone
Interrupted(cs) == {[c EXCEPT !.alone = FALSE] : c \in cs}

\* a handler that is entered: request is <<>> when the method of the application is
\* called directly, and holds the handler and the body of the northbound request
\* otherwise; again says that the call repeats what was done before
NewCall(op, topic, pc, id, args, request, again) ==
    [op |-> op, topic |-> topic, pc |-> pc, id |-> id, args |-> args, gid |-> 0,
     fwd |-> <<>>, n |-> ops + 1, request |-> request, again |-> again,
     alone |-> (calls = {}), before |-> Snapshot]

Refs(cs) == {c.id : c \in cs} \ {0}

Finish(c, cs) == cs \ {c}

Continue(c, cs, pc, id, gid, fwd) ==
    (cs \ {c}) \cup {[c EXCEPT !.pc = pc, !.id = id, !.gid = gid, !.fwd = fwd]}

\* Response(status=..., body=...) of a northbound handler, with the request it answers
Response(handler, status, body) == [handler |-> handler, status |-> status, request |-> body]

\* lines 296-299: the status that answers the return value of register_rt_flow
StatusOf(success) == IF success THEN 200 ELSE 503

\* a step after which the handler is suspended
Suspended ==
    /\ last' = [op |-> "step"]
    /\ UNCHANGED <<reg, http>>

\* the return of a handler: register_rt_flow returns its verdict, and the northbound
\* handler that made the call answers (lines 296-299 and 313-314)
Completed(c, verdict) ==
    /\ last' = IF c.op = "register"
               THEN [op |-> "register", topic |-> c.topic, again |-> c.again,
                     alone |-> c.alone]
               ELSE [op |-> "join", topic |-> c.topic, sub_ip |-> c.args.sub_ip,
                     again |-> c.again, alone |-> c.alone]
    /\ reg' = IF c.op = "register"
              THEN [reg EXCEPT ![c.topic] = [status |-> verdict, args |-> c.args]]
              ELSE reg
    /\ http' = IF c.request = <<>> THEN http
               ELSE Response(c.request[1].handler,
                             IF c.op = "register" THEN StatusOf(verdict = "admitted")
                             ELSE 200,
                             c.request[1].body)

\* switch_features_handler: the datapath is recorded and gets the table-miss entry
SwitchFeatures(dpid) ==
    /\ dpid \notin datapaths
    /\ datapaths' = datapaths \cup {dpid}
    /\ SetTables(AddFlowRule(Tables, dpid, 0, "*", 0, 0))
    /\ last' = [op |-> "switch", dpid |-> dpid]
    /\ calls' = Interrupted(calls)
    /\ UNCHANGED <<flows, objs, subscribers, ops, reg, http>>
    /\ HandlerFrame

\* a handler can be entered: alone, or beside the handlers in flight
Enterable ==
    /\ ops < MaxOps
    /\ \/ calls = {}
       \/ Cardinality(calls) < MaxInFlight /\ ops < MaxConcOps

\* the registry without the entry of the topic
Others(fl, topic) == [t \in (DOMAIN fl) \ {topic} |-> fl[t]]

\* register_rt_flow up to of_db.add_flow (lines 197-210)
RegStartIn(topic, a, src_ip, broker_ip, request, id, kept) ==
    /\ flows' = AddFlow(flows, topic, id)
    /\ objs' = Put(kept, id, NewFlowObject(topic, a, src_ip, broker_ip))
    /\ calls' = Interrupted(calls)
                \cup {NewCall("register", topic, "admit", id,
                              RegArgs(a, src_ip, broker_ip), request,
                              reg[topic].status = "admitted"
                              /\ reg[topic].args = RegArgs(a, src_ip, broker_ip))}

RegStart(topic, a, src_ip, broker_ip, request) ==
    /\ Enterable
    /\ ops' = ops + 1
    /\ RegStartIn(topic, a, src_ip, broker_ip, request,
                  NewId(Collect(Others(flows, topic), objs, Refs(calls))),
                  Collect(Others(flows, topic), objs, Refs(calls)))
    /\ Suspended
    /\ UNCHANGED <<subscribers, datapaths, sw_groups, sw_meters, sw_rules>>
    /\ HandlerFrame

\* the return of the handler c
Returns(c, verdict) ==
    /\ calls' = Finish(c, calls)
    /\ Completed(c, verdict)

\* register_rt_flow from of_db.get_all_flows to the loop of _install_multicast_tree
\* (lines 216-166)
RegAdmitted(c, r, fwd) ==
    IF fwd = <<>>
    THEN /\ Returns(c, "admitted")
         /\ objs' = Collect(flows, [objs EXCEPT ![c.id] = r.obj], Refs(Finish(c, calls)))
    ELSE /\ calls' = Continue(c, calls, "meter", c.id, r.gid, fwd)
         /\ objs' = [objs EXCEPT ![c.id] = r.obj]
         /\ Suspended

RegRouted(c, r) == RegAdmitted(c, r, FwdMap(links, r.tree))

RegAdmit(c) ==
    /\ c.op = "register" /\ c.pc = "admit"
    /\ IF ~Admit(links, flows, objs, c.id)
       THEN /\ Returns(c, "rejected")
            /\ objs' = Collect(flows, objs, Refs(Finish(c, calls)))
       ELSE RegRouted(c, RouteOfRegistration(links, set_order, topic_hash, objs[c.id]))
    /\ UNCHANGED <<flows, subscribers, datapaths, sw_groups, sw_meters, sw_rules, ops>>
    /\ HandlerFrame

\* handle_new_subscriber up to of_db.add_subscriber (lines 249-252)
JoinStart(topic, sub_ip, request) ==
    /\ Enterable
    /\ ops' = ops + 1
    /\ subscribers' = AddSubscriberSet(subscribers, topic, sub_ip)
    /\ objs' = AddSubscriberDst(flows, objs, topic, sub_ip)
    /\ calls' = Interrupted(calls)
                \cup {NewCall("join", topic, "graft", 0, [sub_ip |-> sub_ip], request,
                              last.op = "join" /\ last.topic = topic
                              /\ last.sub_ip = sub_ip /\ last.alone)}
    /\ Suspended
    /\ UNCHANGED <<flows, datapaths, sw_groups, sw_meters, sw_rules>>
    /\ HandlerFrame

\* handle_new_subscriber from of_db.get_flow to the loop of _install_multicast_tree
\* (lines 255-166)
JoinGrafted(c, id, r, fwd) ==
    /\ objs' = [objs EXCEPT ![id] = r.obj]
    /\ IF fwd = <<>>
       THEN Returns(c, "none")
       ELSE /\ calls' = Continue(c, calls, "meter", id, r.gid, fwd)
            /\ Suspended

JoinRouted(c, id, r) == JoinGrafted(c, id, r, FwdMap(links, r.tree))

JoinGraft(c) ==
    /\ c.op = "join" /\ c.pc = "graft"
    /\ IF c.topic \notin DOMAIN flows
       THEN /\ Returns(c, "none")
            /\ UNCHANGED objs
       ELSE JoinRouted(c, flows[c.topic],
                       RouteOfGraft(links, set_order, topic_hash, objs[flows[c.topic]]))
    /\ UNCHANGED <<flows, subscribers, datapaths, sw_groups, sw_meters, sw_rules, ops>>
    /\ HandlerFrame

\* the handler is resumed at the head of the loop of _install_multicast_tree: with no
\* connected switch left it returns; otherwise it calls install_meter for the next one
MeterSent(c, rest) ==
    IF rest = <<>>
    THEN /\ Returns(c, "admitted")
         /\ objs' = Collect(flows, objs, Refs(Finish(c, calls)))
         /\ UNCHANGED <<sw_groups, sw_meters, sw_rules>>
    ELSE /\ SetTables(InstallMeter(Tables, Head(rest).dpid, c.gid, objs[c.id].bwi))
         /\ calls' = Continue(c, calls, "group", c.id, c.gid, rest)
         /\ Suspended
         /\ UNCHANGED objs

\* one turn of the loop of _install_multicast_tree up to the send_msg of install_meter
\* (lines 168-175 and 85)
InstallMeterStep(c) ==
    /\ c.pc = "meter"
    /\ MeterSent(c, SkipAbsent(c.fwd, datapaths))
    /\ UNCHANGED <<flows, subscribers, datapaths, ops>>
    /\ HandlerFrame

\* the turn from there to the send_msg of install_multicast_group (lines 179 and 101)
InstallGroupStep(c) ==
    /\ c.pc = "group"
    /\ SetTables(InstallMulticastGroup(Tables, Head(c.fwd).dpid, c.gid, Head(c.fwd).ports))
    /\ calls' = Continue(c, calls, "rule", c.id, c.gid, c.fwd)
    /\ Suspended
    /\ UNCHANGED <<flows, objs, subscribers, datapaths, ops>>
    /\ HandlerFrame

\* the turn from there to the send_msg of add_flow (lines 182-195 and 64): the handler
\* is suspended in the send, also after the last item of fwd_map, with the items that
\* follow left to the loop
AddFlowStep(c) ==
    /\ c.pc = "rule"
    /\ SetTables(AddFlowRule(Tables, Head(c.fwd).dpid, 100 + objs[c.id].pi,
                             MatchOf(objs[c.id]), c.gid, c.gid))
    /\ calls' = Continue(c, calls, "meter", c.id, c.gid, Tail(c.fwd))
    /\ Suspended
    /\ UNCHANGED <<flows, objs, subscribers, datapaths, ops>>
    /\ HandlerFrame

\* the methods of the application called directly: no response is produced
Next ==
    \/ \E d \in {3} : SwitchFeatures(d)
    \/ \E t \in Topics, q \in RequestChoices :
          RegStart(t, q.a, q.src_ip, q.broker_ip, <<>>)
    \/ \E c \in calls : RegAdmit(c)
    \/ \E t \in Topics, s \in SubChoices : JoinStart(t, s, <<>>)
    \/ \E c \in calls : JoinGraft(c)
    \/ \E c \in calls : InstallMeterStep(c)
    \/ \E c \in calls : InstallGroupStep(c)
    \/ \E c \in calls : AddFlowStep(c)

Spec == Init /\ [][Next]_vars

----------------------------------------------------------------------------
(* MRTController: the northbound handlers POST /mrt/register_flow and        *)
(* POST /mrt/register_subscriber (specification SpecRest)                   *)

\* a request body. kind says what "req.json if req.body else {}" makes of it: "text"
\* is no JSON (ValueError), "empty" is the empty body (data = {}), "object" is a JSON
\* object with the keys `keys`, "value" is a JSON value that is no object ([], null,
\* a string, a number), on which data.get raises AttributeError. attrs says what the
\* value of rt_attributes is: "object" a non-empty object, "empty" the object {}, and
\* "refused" a value on which RTAttributes(**v) raises TypeError (a non-empty string
\* or array is no mapping). hashable is FALSE when topic is a JSON array, which is no
\* key of a dictionary. data.get(k) of a key that is not there is None.
FlowKeys == {"topic", "rt_attributes", "src_ip", "broker_ip"}

FlowBody(kind, keys, topic, q) ==
    [kind |-> kind, keys |-> keys, topic |-> topic, hashable |-> TRUE,
     attrs |-> "object", rt_attributes |-> q.a, src_ip |-> q.src_ip,
     broker_ip |-> q.broker_ip]

\* the requests with topic and rt_attributes, with flows towards switch 4
GoodFlowBodies ==
    { FlowBody("object", FlowKeys, t, q) :
        t \in Topics, q \in {r \in RequestChoices : r.a.dst_ips = <<"4">>} }

\* a body that is no JSON, the empty body, a JSON value that is no object, and objects
\* that lack a key, hold an empty topic or empty rt_attributes, hold rt_attributes
\* that are no mapping, or hold a topic that is an array
BadFlowBodies ==
    { [b EXCEPT !.kind = x.kind, !.keys = x.keys, !.topic = x.topic,
                !.attrs = x.attrs, !.hashable = x.hashable] :
        b \in {CHOOSE g \in GoodFlowBodies : g.topic = "tA" /\ g.rt_attributes.qi = 0},
        x \in { [kind |-> k.kind, keys |-> k.keys, topic |-> "tA", attrs |-> "object",
                 hashable |-> TRUE] :
                  k \in { [kind |-> "text", keys |-> {}],
                          [kind |-> "empty", keys |-> {}],
                          [kind |-> "value", keys |-> {}],
                          [kind |-> "object", keys |-> {"topic"}],
                          [kind |-> "object", keys |-> {"rt_attributes", "src_ip"}] } }
              \cup { [kind |-> "object", keys |-> FlowKeys, topic |-> "",
                      attrs |-> "object", hashable |-> TRUE],
                     [kind |-> "object", keys |-> FlowKeys, topic |-> "tA",
                      attrs |-> "empty", hashable |-> TRUE],
                     [kind |-> "object", keys |-> FlowKeys, topic |-> "tA",
                      attrs |-> "refused", hashable |-> TRUE],
                     [kind |-> "object", keys |-> FlowKeys, topic |-> "tA",
                      attrs |-> "object", hashable |-> FALSE] } }

FlowBodies == GoodFlowBodies \cup BadFlowBodies

SubscriberKeys == {"topic", "subscriber_ip"}

SubscriberBodies ==
    { [kind |-> x.kind, keys |-> x.keys, topic |-> "tA", hashable |-> x.hashable,
       subscriber_ip |-> x.subscriber_ip] :
        x \in { [kind |-> "text", keys |-> {}, hashable |-> TRUE, subscriber_ip |-> "4"],
                [kind |-> "value", keys |-> {}, hashable |-> TRUE, subscriber_ip |-> "4"],
                [kind |-> "object", keys |-> {"topic"}, hashable |-> TRUE,
                 subscriber_ip |-> "4"],
                [kind |-> "object", keys |-> {"subscriber_ip"}, hashable |-> TRUE,
                 subscriber_ip |-> "4"],
                [kind |-> "object", keys |-> SubscriberKeys, hashable |-> TRUE,
                 subscriber_ip |-> ""],
                [kind |-> "object", keys |-> SubscriberKeys, hashable |-> FALSE,
                 subscriber_ip |-> "4"],
                [kind |-> "object", keys |-> SubscriberKeys, hashable |-> TRUE,
                 subscriber_ip |-> "4"] } }

\* `not data.get(k)`: the key is missing or its value is empty
Missing(body, k) == k \notin body.keys \/ body[k] = ""

\* `not rt_attrs`: the key is missing or its value is the empty object
NoAttributes(body) == "rt_attributes" \notin body.keys \/ body.attrs = "empty"

\* the handler is left without a call of the application having changed anything
Answered(handler, status, body) ==
    /\ ops < MaxOps
    /\ ops' = ops + 1
    /\ http' = Response(handler, status, body)
    /\ UNCHANGED <<flows, objs, subscribers, datapaths, sw_groups, sw_meters, sw_rules,
                   calls, reg, last>>
    /\ HandlerFrame

\* return Response(status=400, ...)
BadRequest(handler, body) == Answered(handler, 400, body)

\* an exception leaves the handler: it builds no Response, and the WSGI server that
\* called it answers 500 Internal Server Error
Raises(handler, body) == Answered(handler, 500, body)

\* MRTController.register_flow up to the first suspension of register_rt_flow; the
\* answer is given when register_rt_flow returns. AttributeError of data.get (line
\* 286), TypeError of RTAttributes(**rt_attrs_dict) (line 201) and of of_db.add_flow
\* under a topic that is no key (line 210) leave the handler.
RegisterFlow(body) ==
    IF body.kind = "text" THEN BadRequest("register_flow", body)
    ELSE IF body.kind = "value" THEN Raises("register_flow", body)
    ELSE IF Missing(body, "topic") \/ NoAttributes(body)
    THEN BadRequest("register_flow", body)
    ELSE IF body.attrs = "refused" \/ ~body.hashable THEN Raises("register_flow", body)
    ELSE RegStart(body.topic, body.rt_attributes,
                  IF "src_ip" \in body.keys THEN body.src_ip ELSE "",
                  IF "broker_ip" \in body.keys THEN body.broker_ip ELSE "",
                  << [handler |-> "register_flow", body |-> body] >>)

\* MRTController.register_subscriber up to the first suspension of
\* handle_new_subscriber; the answer is given when handle_new_subscriber returns.
\* AttributeError of data.get (line 308) and TypeError of of_db.add_subscriber under a
\* topic that is no key (line 252) leave the handler.
RegisterSubscriber(body) ==
    IF body.kind = "text" THEN BadRequest("register_subscriber", body)
    ELSE IF body.kind = "value" THEN Raises("register_subscriber", body)
    ELSE IF ~Missing(body, "topic") /\ ~Missing(body, "subscriber_ip")
    THEN IF ~body.hashable THEN Raises("register_subscriber", body)
         ELSE JoinStart(body.topic, body.subscriber_ip,
                        << [handler |-> "register_subscriber", body |-> body] >>)
    ELSE BadRequest("register_subscriber", body)

NextRest ==
    \/ \E d \in {3} : SwitchFeatures(d)
    \/ \E body \in FlowBodies : RegisterFlow(body)
    \/ \E body \in SubscriberBodies : RegisterSubscriber(body)
    \/ \E c \in calls : RegAdmit(c)
    \/ \E c \in calls : JoinGraft(c)
    \/ \E c \in calls : InstallMeterStep(c)
    \/ \E c \in calls : InstallGroupStep(c)
    \/ \E c \in calls : AddFlowStep(c)

SpecRest == Init /\ [][NextRest]_vars

----------------------------------------------------------------------------
(* AdmissionControl.check_admissibility called directly, on flows that hold  *)
(* a route of the diamond                                                    *)

\* the flows of existing_flows besides the candidate, one per topic at most
MaxExisting == 2

ExistingTopics == <<"tB", "tC", "tD">>

PathVia2 == << <<"1", "2", 1>>, <<"2", "4", 1>> >>

PathVia3 == << <<"1", "3", 2>>, <<"3", "4", 1>> >>

RoutedFlow(topic, qi, pi, di, route) ==
    [RTAttributes(topic, [qi |-> qi, ci |-> 500, pi |-> pi, ti |-> 20000, di |-> di,
                          bwi |-> 1, dst_ips |-> <<"4">>, processing_delay |-> 1000])
        EXCEPT !.src_ip = "1", !.route_links = route, !.num_hops = Len(route)]

CandidateChoices ==
    { RoutedFlow("tA", qi, pi, di, r) :
        qi \in {0, 1}, pi \in {5, 10}, di \in {10500, 11500},
        r \in {<<>>, PathVia2, PathVia3} }

ExistingFlowChoices(topic) ==
    { RoutedFlow(topic, 0, pi, di, r) :
        pi \in {5, 10}, di \in {11000, 11500}, r \in {PathVia2, PathVia3} }

\* the lists over the first k topics, in topic order; a topic may be absent
RECURSIVE ExistingLists(_)
ExistingLists(k) ==
    IF k = 0 THEN {<<>>}
    ELSE { l \o x : l \in ExistingLists(k - 1),
                    x \in {<<>>} \cup {<<f>> : f \in ExistingFlowChoices(ExistingTopics[k])} }

\* the call as register_rt_flow makes it passes a list that holds the candidate too
AdmCalls ==
    { [pc |-> "call", new_flow |-> f, result |-> FALSE,
       existing_flows |-> IF held THEN F \o <<f>> ELSE F] :
        f \in CandidateChoices, F \in ExistingLists(MaxExisting), held \in BOOLEAN }

\* get_interfering_flows_on_link(link, subject_flow, all_flows): the list holds the
\* subject flow not at all, once, or twice
InterferenceCalls ==
    { [pc |-> "ifcall", link |-> l, subject_flow |-> f, result |-> <<>>,
       all_flows |-> IF copies = 0 THEN F
                     ELSE IF copies = 1 THEN F \o <<f>>
                     ELSE <<f>> \o F \o <<f>>] :
        l \in {PathVia2[1], PathVia2[2], PathVia3[1]},
        f \in {c \in CandidateChoices : c.qi = 0 /\ c.di = 10500},
        F \in ExistingLists(MaxExisting), copies \in 0..2 }

\* the tree of the diamond that serves the destinations 3 and 4
TreeVia2And3 == PathVia2 \o << <<"1", "3", 2>> >>

\* the subject flows of a direct call of an analyzer: routed to 4, to 3 and 4, to 4 and
\* a destination that is no node, to the source itself, without route, without
\* destination; with the attributes of flow B of the experiment or a short deadline
AnalyzedFlows ==
    { [RoutedFlow("tA", qi, pi, t[2], r[1]) EXCEPT !.ci = t[1], !.dst_ips = r[2]] :
        qi \in {0, 1}, pi \in {5, 10},
        t \in { <<5000, 50000>>, <<500, 10500>> },
        r \in { <<PathVia2, <<"4">> >>, <<TreeVia2And3, <<"3", "4">> >>,
                <<PathVia2, <<"4", "9">> >>, <<PathVia2, <<"1">> >>,
                << <<>>, <<"4">> >>, <<PathVia2, <<>> >> } }

\* TrajectoryApproach.calculate_wcrt(flow, all_flows), all_flows holding the flow
TrajectoryCalls ==
    { [pc |-> "tacall", flow |-> f, all_flows |-> F \o <<f>>, result |-> 0] :
        f \in AnalyzedFlows, F \in ExistingLists(MaxExisting) }

InitAdm ==
    /\ Boot
    /\ topic_hash = [t \in Topics |-> IF t = "tA" THEN 7 ELSE 12]
    /\ set_order = <<"1", "2", "3", "4">>
    /\ adm \in AdmCalls \cup InterferenceCalls \cup TrajectoryCalls
    /\ http = [handler |-> "none", status |-> 0]
    /\ pathcall = [pc |-> "none"]
    /\ msdp = [pc |-> "none"]
    /\ monitor = [pc |-> "none"]

CheckAdmissibilityCall ==
    /\ adm.pc = "call"
    /\ adm' = [adm EXCEPT !.pc = "done",
                          !.result = CheckAdmissibility(links, adm.new_flow,
                                                        adm.existing_flows)]
    /\ UNCHANGED <<links, flows, objs, subscribers, datapaths, sw_groups, sw_meters,
                   sw_rules, topic_hash, set_order, calls, ops, reg, last, http, pathcall, msdp,
                   monitor>>

GetInterferingFlowsOnLinkCall ==
    /\ adm.pc = "ifcall"
    /\ adm' = [adm EXCEPT !.pc = "ifdone",
                          !.result = GetInterferingFlowsOnLink(adm.link, adm.subject_flow,
                                                               adm.all_flows)]
    /\ UNCHANGED <<links, flows, objs, subscribers, datapaths, sw_groups, sw_meters,
                   sw_rules, topic_hash, set_order, calls, ops, reg, last, http, pathcall,
                   msdp, monitor>>

TrajectoryCall ==
    /\ adm.pc = "tacall"
    /\ adm' = [adm EXCEPT !.pc = "tadone",
                          !.result = TaWcrt(links, adm.flow, adm.all_flows)]
    /\ UNCHANGED <<links, flows, objs, subscribers, datapaths, sw_groups, sw_meters,
                   sw_rules, topic_hash, set_order, calls, ops, reg, last, http, pathcall,
                   msdp, monitor>>

NextAdm == CheckAdmissibilityCall \/ GetInterferingFlowsOnLinkCall \/ TrajectoryCall

SpecAdm == InitAdm /\ [][NextAdm]_vars

----------------------------------------------------------------------------
(* HolisticApproach.calculate_wcrt called directly, one step per turn of its  *)
(* loop (specification SpecHa). The flows and links hold times in units of    *)
(* 0.001 ms; the analysis computes in units of 0.000001 ms, in which the      *)
(* transmission delay of a link is a whole number.                            *)

Fine(x) == 1000 * x

\* the convergence threshold of the loop, 0.001 ms
Epsilon == Fine(1)

\* Link.get_transmission_delay(flow.ci * 1000): the payload, ci in ms times 1000
\* taken as bits, over bw_capacity * 10^6; the quotient is added to the delays as it
\* is, so that 0.5 ms over 100 Mbps counts for 0.000005 ms
GetTransmissionDelay(link, ci) == ci \div link.bw_capacity

\* the per-link delays of the route alone
StaticDelayOfLinks(ls, flow) ==
    SumSeq([i \in 1..Len(flow.route_links) |->
              GetTransmissionDelay(LinkOf(ls, flow.route_links[i]), flow.ci)
              + Fine(LinkOf(ls, flow.route_links[i]).prop_delay
                     + LinkOf(ls, flow.route_links[i]).switch_delay
                     + LinkOf(ls, flow.route_links[i]).proc_delay
                     + LinkOf(ls, flow.route_links[i]).queuing_delay)])

\* static_delay as the loop uses it: the per-link delays of the route and the
\* processing delay of the broker
StaticDelay(ls, flow) ==
    SumSeq([i \in 1..Len(flow.route_links) |->
              GetTransmissionDelay(LinkOf(ls, flow.route_links[i]), flow.ci)
              + Fine(LinkOf(ls, flow.route_links[i]).prop_delay
                     + LinkOf(ls, flow.route_links[i]).switch_delay
                     + LinkOf(ls, flow.route_links[i]).proc_delay
                     + LinkOf(ls, flow.route_links[i]).queuing_delay)])
    + Fine(flow.processing_delay)

PathJitterSum(ls, flow) ==
    SumSeq([i \in 1..Len(flow.route_links) |->
              Fine(LinkOf(ls, flow.route_links[i]).jitter)])

\* interfering_set: the positions in all_flows of the flows that interfere with the
\* flow on some link of its route, each flow once
InterferingSet(flow, all_flows) ==
    {j \in 1..Len(all_flows) :
        \E i \in 1..Len(flow.route_links) :
            InSeq(all_flows[j],
                  GetInterferingFlowsOnLink(flow.route_links[i], flow, all_flows))}

\* an interference that is taken off the response time
InterferenceCredited(prev_w, all_flows, interfering_set) ==
    0 - SumSeq([j \in 1..Len(all_flows) |->
                  IF j \in interfering_set
                  THEN Ceil(prev_w + Fine(all_flows[j].measured_jitter),
                            Fine(all_flows[j].ti)) * Fine(all_flows[j].ci)
                  ELSE 0])

\* the interference of one turn of the loop
Interference(prev_w, all_flows, interfering_set) ==
    SumSeq([j \in 1..Len(all_flows) |->
              IF j \in interfering_set
              THEN Ceil(prev_w + Fine(all_flows[j].measured_jitter),
                        Fine(all_flows[j].ti)) * Fine(all_flows[j].ci)
              ELSE 0])

Abs(x) == IF x < 0 THEN -x ELSE x

\* every link of the diamond with the jitter j
WithJitter(ls, j) == [i \in 1..Len(ls) |-> [ls[i] EXCEPT !.jitter = j]]

LinkVia3 == << <<"1", "3", 2>> >>

\* the subject flows: flow E of the verification script (ci 2, di 20, processing 1.5,
\* one link) among them
HolisticFlows ==
    { [RoutedFlow("tA", 2, 5, di, r) EXCEPT !.ci = ci, !.processing_delay = pd,
                                            !.dst_ips = <<r[Len(r)][2]>>] :
        ci \in {500, 2000}, di \in {10500, 20000, 50000}, pd \in {0, 1500},
        r \in {LinkVia3, PathVia2} }

\* the other flows: of lower or higher priority, on either path, of utilization
\* 0.025, 1 and 1.5, with and without release jitter
OtherFlows ==
    { << [RoutedFlow("tB", 0, pi, 50000, r)
            EXCEPT !.ci = u[1], !.ti = u[2], !.measured_jitter = mj] >> :
        pi \in {1, 10}, r \in {PathVia2, PathVia3},
        u \in { <<500, 20000>>, <<20000, 20000>>, <<3000, 2000>> },
        mj \in {0, 300} }
    \cup { <<>> }

MoreFlows == { <<>>, << RoutedFlow("tC", 0, 10, 50000, PathVia2) >> }

\* HolisticApproach.calculate_wcrt(flow, all_flows), all_flows holding the flow
HolisticCalls ==
    { [pc |-> "hacall", flow |-> f, all_flows |-> F \o G \o <<f>>, result |-> 0,
       w |-> 0, prev_w |-> 0, turns |-> 0, returned |-> "no", before |-> <<>>] :
        f \in HolisticFlows, F \in OtherFlows, G \in MoreFlows }

InitHa ==
    /\ \E j \in {0, 1000} : links = WithJitter(DiamondLinks, j)
    /\ adm \in HolisticCalls
    /\ set_order = <<"1", "2", "3", "4">>
    /\ flows = <<>> /\ objs = <<>> /\ subscribers = <<>>
    /\ datapaths = {} /\ sw_groups = {} /\ sw_meters = {} /\ sw_rules = {}
    /\ topic_hash = [t \in Topics |-> IF t = "tA" THEN 7 ELSE 12]
    /\ calls = {} /\ ops = 0
    /\ reg = [t \in Topics |-> [status |-> "none"]]
    /\ last = [op |-> "init"]
    /\ http = [handler |-> "none", status |-> 0]
    /\ pathcall = [pc |-> "none"]
    /\ msdp = [pc |-> "none"]
    /\ monitor = [pc |-> "none"]

\* the statements before the loop: w = static_delay + flow.ci, prev_w = 0.0
HolisticEnter ==
    /\ adm.pc = "hacall"
    /\ adm' = [adm EXCEPT !.pc = "haloop",
                          !.w = StaticDelay(links, adm.flow) + Fine(adm.flow.ci),
                          !.prev_w = 0, !.turns = 0, !.returned = "no"]
    /\ UNCHANGED <<links, flows, objs, subscribers, datapaths, sw_groups, sw_meters,
                   sw_rules, topic_hash, set_order, calls, ops, reg, last, http, pathcall,
                   msdp, monitor>>

\* one turn of the loop that does not leave it
HolisticTurn ==
    /\ adm.pc = "haloop"
    /\ Abs(adm.w - adm.prev_w) > Epsilon
    /\ ~(adm.w > Fine(adm.flow.di))
    /\ adm' = [adm EXCEPT !.prev_w = adm.w,
                          !.w = StaticDelay(links, adm.flow) + Fine(adm.flow.ci)
                                + Interference(adm.w, adm.all_flows,
                                               InterferingSet(adm.flow, adm.all_flows))
                                + PathJitterSum(links, adm.flow),
                          !.turns = @ + 1]
    /\ UNCHANGED <<links, flows, objs, subscribers, datapaths, sw_groups, sw_meters,
                   sw_rules, topic_hash, set_order, calls, ops, reg, last, http, pathcall,
                   msdp, monitor>>

\* return w: from inside the loop when w > di, after the loop when w has converged
HolisticReturn ==
    /\ adm.pc = "haloop"
    /\ adm' = [adm EXCEPT !.pc = "hadone", !.result = adm.w,
                          !.returned = IF Abs(adm.w - adm.prev_w) > Epsilon
                                       THEN "early" ELSE "converged"]
    /\ Abs(adm.w - adm.prev_w) > Epsilon => adm.w > Fine(adm.flow.di)
    /\ UNCHANGED <<links, flows, objs, subscribers, datapaths, sw_groups, sw_meters,
                   sw_rules, topic_hash, set_order, calls, ops, reg, last, http, pathcall,
                   msdp, monitor>>

\* the caller keeps the result and calls again with the same arguments
CallAgain ==
    /\ adm.pc \in {"done", "tadone", "hadone"}
    /\ adm.before = <<>>
    /\ adm' = [adm EXCEPT !.pc = IF adm.pc = "done" THEN "call"
                                 ELSE IF adm.pc = "tadone" THEN "tacall" ELSE "hacall",
                          !.before = <<adm.result>>]
    /\ UNCHANGED <<links, flows, objs, subscribers, datapaths, sw_groups, sw_meters,
                   sw_rules, topic_hash, set_order, calls, ops, reg, last, http, pathcall,
                   msdp, monitor>>

NextHa == HolisticEnter \/ HolisticTurn \/ HolisticReturn \/ CallAgain

\* the loop runs in one thread that nothing suspends for ever
SpecHa == InitHa /\ [][NextHa]_vars /\ WF_vars(NextHa)

----------------------------------------------------------------------------
(* The three analyses run on objects, each called twice with the same         *)
(* arguments (specification SpecPure). The flows are the RTAttributes objects *)
(* of OF-DB (objs) and the links its Link objects (links); a list, a set or a *)
(* graph is a cell named after the variable that holds it. A statement that   *)
(* binds a variable to a new object makes a cell; a statement that changes an *)
(* object in place writes the cell that the variable refers to. A flow is     *)
(* passed by its reference in objs and a list by the name of its cell.        *)

\* the objects that a call can reach
Heap == [links |-> links, objs |-> objs, cells |-> adm.cells]

\* var = [] / set() / nx.DiGraph() / a + b: a new object, bound to var
Bind(h, var, v) == [h EXCEPT !.cells = Put(@, var, v)]

\* var.append(x), G.add_edge(...): the object that var refers to is changed in place
ListAppend(h, var, x) == [h EXCEPT !.cells[var] = Append(@, x)]

\* var.update(xs)
SetUpdate(h, var, xs) == [h EXCEPT !.cells[var] = @ \cup xs]

\* the flows that a list of references holds
Deref(h, refs) == [i \in 1..Len(refs) |-> h.objs[refs[i]]]

\* analysis.py lines 11-19: "for flow in all_flows", interfering.append(flow)
RECURSIVE InterferingScan(_, _, _, _)
InterferingScan(h, key, subject_flow, fs) ==
    IF fs = <<>> THEN h
    ELSE InterferingScan(
            IF /\ h.objs[Head(fs)].ft_i # h.objs[subject_flow].ft_i
               /\ SharesLink(key, h.objs[Head(fs)])
               /\ h.objs[Head(fs)].pi >= h.objs[subject_flow].pi
            THEN ListAppend(h, "interfering", Head(fs))
            ELSE h,
            key, subject_flow, Tail(fs))

\* get_interfering_flows_on_link (lines 10-20): the list returned is the cell
\* interfering
GetInterferingRun(h, key, subject_flow, all_flows) ==
    InterferingScan(Bind(h, "interfering", <<>>), key, subject_flow, h.cells[all_flows])

\* _compute_path_wcrt, lines 87-92: "for link in links"
RECURSIVE SegmentScan(_, _, _, _, _)
SegmentScan(h, flow, all_flows, path, wcrt_segment) ==
    IF path = <<>> THEN [h |-> h, ret |-> wcrt_segment]
    ELSE LET h1 == GetInterferingRun(h, Head(path), flow, all_flows)
         IN  SegmentScan(h1, flow, all_flows, Tail(path),
                         wcrt_segment
                         + LinkInterference(h1.objs[flow],
                                            Deref(h1, h1.cells.interfering)))

\* _compute_path_wcrt (lines 81-96)
ComputePathWcrtRun(h, flow, all_flows, path) ==
    IF path = <<>> THEN [h |-> h, ret |-> 0]
    ELSE SegmentScan(h, flow, all_flows, path,
                     SumSeq([i \in 1..Len(path) |->
                               LinkOf(h.links, path[i]).prop_delay
                               + LinkOf(h.links, path[i]).switch_delay
                               + LinkOf(h.links, path[i]).proc_delay])
                     + h.objs[flow].ci)

\* lines 102-103: G.add_edge(l.src, l.dst, link_obj=l) for every link of the route
RECURSIVE AddEdges(_, _)
AddEdges(h, ls) ==
    IF ls = <<>> THEN h ELSE AddEdges(ListAppend(h, "G", Head(ls)), Tail(ls))

\* lines 111-114: path_links_list.append(G[u][v]['link_obj'])
RECURSIVE PathLinks(_, _, _)
PathLinks(h, path_nodes, i) ==
    IF i >= Len(path_nodes) THEN h
    ELSE PathLinks(ListAppend(h, "path_links_list",
                              DiLinkObj(h.cells.G, path_nodes[i], path_nodes[i + 1])),
                   path_nodes, i + 1)

\* lines 106-119: "for dst in targets"; a destination without path is passed over
RECURSIVE BranchScan(_, _, _, _, _, _)
BranchScan(h, flow, all_flows, src, targets, max_val) ==
    IF targets = <<>> THEN [h |-> h, ret |-> max_val]
    ELSE LET path_nodes == ShortestPath(h.cells.G, src, Head(targets))
             h1 == PathLinks(Bind(h, "path_links_list", <<>>), path_nodes, 1)
             r == ComputePathWcrtRun(h1, flow, all_flows, h1.cells.path_links_list)
         IN  IF path_nodes = NoPath
             THEN BranchScan(h, flow, all_flows, src, Tail(targets), max_val)
             ELSE BranchScan(r.h, flow, all_flows, src, Tail(targets),
                             Max2(r.ret, max_val))

\* _get_max_branch_wcrt (lines 98-120)
MaxBranchRun(h, flow, all_flows, src, targets, available_links) ==
    IF targets = <<>> \/ available_links = <<>> THEN [h |-> h, ret |-> 0]
    ELSE BranchScan(AddEdges(Bind(h, "G", <<>>), available_links), flow, all_flows,
                    src, targets, 0)

\* TrajectoryApproach.calculate_wcrt (lines 134-141): the processing delay of the
\* broker is added to the bound of the branches
TrajectoryRun(h, flow, all_flows) ==
    LET r == MaxBranchRun(h, flow, all_flows, h.objs[flow].src_ip,
                          h.objs[flow].dst_ips, h.objs[flow].route_links)
    IN  [r EXCEPT !.ret = @ + IF r.h.objs[flow].qi > 0
                              THEN r.h.objs[flow].processing_delay ELSE 0]

\* a variant of line 150 that appends the candidate to the list it was given
CandidateSetInPlace(h, new_flow, existing_flows) ==
    [h |-> ListAppend(h, existing_flows, new_flow), cell |-> existing_flows]

\* line 150: candidate_set = existing_flows + [new_flow], a new list
CandidateSetOf(h, new_flow, existing_flows) ==
    [h |-> Bind(h, "candidate_set", h.cells[existing_flows] \o <<new_flow>>),
     cell |-> "candidate_set"]

\* lines 161-168: "for flow in existing_flows"
RECURSIVE ExistingScan(_, _, _)
ExistingScan(h, fs, candidate_set) ==
    IF fs = <<>> THEN [h |-> h, ret |-> TRUE]
    ELSE LET r == TrajectoryRun(h, Head(fs), candidate_set)
         IN  IF Violates(r.ret, r.h.objs[Head(fs)].di) THEN [h |-> r.h, ret |-> FALSE]
             ELSE ExistingScan(r.h, Tail(fs), candidate_set)

\* lines 153-168, r being what the analysis of the candidate has returned
AdmissionAfter(r, new_flow, existing_flows, candidate_set) ==
    IF Violates(r.ret, r.h.objs[new_flow].di) THEN [h |-> r.h, ret |-> FALSE]
    ELSE ExistingScan(r.h, r.h.cells[existing_flows], candidate_set)

\* AdmissionControl.check_admissibility (lines 150-168)
CheckAdmissibilityRun(h, new_flow, existing_flows) ==
    LET c == CandidateSetOf(h, new_flow, existing_flows)
    IN  AdmissionAfter(TrajectoryRun(c.h, new_flow, c.cell), new_flow, existing_flows,
                       c.cell)

\* lines 49-51: interfering_set.update(int_flows) for every link of the route
RECURSIVE InterferingSetScan(_, _, _, _)
InterferingSetScan(h, flow, all_flows, route) ==
    IF route = <<>> THEN h
    ELSE LET h1 == GetInterferingRun(h, Head(route), flow, all_flows)
         IN  InterferingSetScan(SetUpdate(h1, "interfering_set",
                                          Range(h1.cells.interfering)),
                                flow, all_flows, Tail(route))

\* lines 56-61: the interference of one turn, over the flows of interfering_set
InterferenceOfSet(h, prev_w) ==
    SumSeq([i \in 1..Cardinality(h.cells.interfering_set) |->
              Ceil(prev_w + Fine(h.objs[SeqOfSet(h.cells.interfering_set)[i]].measured_jitter),
                   Fine(h.objs[SeqOfSet(h.cells.interfering_set)[i]].ti))
              * Fine(h.objs[SeqOfSet(h.cells.interfering_set)[i]].ci)])

\* lines 53-65: the loop, left when w has converged or has passed the deadline
RECURSIVE HolisticLoop(_, _, _, _)
HolisticLoop(h, flow, w, prev_w) ==
    IF ~(Abs(w - prev_w) > Epsilon) \/ w > Fine(h.objs[flow].di) THEN w
    ELSE HolisticLoop(h, flow,
                      StaticDelay(h.links, h.objs[flow]) + Fine(h.objs[flow].ci)
                      + InterferenceOfSet(h, w) + PathJitterSum(h.links, h.objs[flow]),
                      w)

\* HolisticApproach.calculate_wcrt (lines 29-65): w = static_delay + flow.ci and
\* prev_w = 0.0 before the loop
HolisticRun(h, flow, all_flows) ==
    LET h1 == InterferingSetScan(Bind(h, "interfering_set", {}), flow, all_flows,
                                 h.objs[flow].route_links)
    IN  [h |-> h1,
         ret |-> HolisticLoop(h1, flow,
                              StaticDelay(h1.links, h1.objs[flow])
                              + Fine(h1.objs[flow].ci), 0)]

\* the flow objects of a call: those of the list, and the subject when the list does
\* not hold it
FlowObjects(list, subject) == IF InSeq(subject, list) THEN list ELSE list \o <<subject>>

RefOf(all, f) == CHOOSE i \in 1..Len(all) : all[i] = f

\* the calls: the subject flow, the list that is passed and the name of its cell
ObjectCalls ==
    { [pc |-> "call", list |-> "existing_flows", subject |-> c.new_flow,
       passed |-> c.existing_flows] : c \in AdmCalls }
    \cup { [pc |-> "tacall", list |-> "all_flows", subject |-> c.flow,
            passed |-> c.all_flows] : c \in TrajectoryCalls }
    \cup { [pc |-> "hacall", list |-> "all_flows", subject |-> c.flow,
            passed |-> c.all_flows] : c \in HolisticCalls }

\* OF-DB holds the flows of the list, and the call refers to them
LoadedCall(c, all) ==
    /\ objs = all
    /\ flows = [t \in {c.passed[i].ft_i : i \in 1..Len(c.passed)} |->
                  CHOOSE i \in 1..Len(all) : all[i].ft_i = t]
    /\ adm = [pc |-> c.pc, subject |-> RefOf(all, c.subject), list |-> c.list,
              cells |-> (c.list :> [i \in 1..Len(c.passed) |-> RefOf(all, c.passed[i])]),
              result |-> IF c.pc = "call" THEN FALSE ELSE 0, before |-> <<>>]

InitPure ==
    /\ links = DiamondLinks
    /\ \E c \in ObjectCalls : LoadedCall(c, FlowObjects(c.passed, c.subject))
    /\ subscribers = <<>>
    /\ datapaths = {1, 2, 4} /\ sw_groups = {} /\ sw_meters = {}
    /\ sw_rules = {[dpid |-> d, priority |-> 0, match |-> "*", gid |-> 0, mid |-> 0]
                     : d \in {1, 2, 4}}
    /\ topic_hash = [t \in Topics |-> IF t = "tA" THEN 7 ELSE 12]
    /\ set_order = <<"1", "2", "3", "4">>
    /\ calls = {} /\ ops = 0
    /\ reg = [t \in Topics |-> [status |-> "none"]]
    /\ last = [op |-> "init"]
    /\ http = [handler |-> "none", status |-> 0]
    /\ pathcall = [pc |-> "none"]
    /\ msdp = [pc |-> "none"]
    /\ monitor = [pc |-> "none"]

\* the call returns: the objects are as its statements have left them
Returned(pc, r) ==
    /\ adm' = [adm EXCEPT !.pc = pc, !.result = r.ret, !.cells = r.h.cells]
    /\ links' = r.h.links
    /\ objs' = r.h.objs
    /\ UNCHANGED <<flows, subscribers, datapaths, sw_groups, sw_meters, sw_rules,
                   topic_hash, set_order, calls, ops, reg, last, http, pathcall, msdp,
                   monitor>>

CheckAdmissibilityOnObjects ==
    /\ adm.pc = "call"
    /\ Returned("done", CheckAdmissibilityRun(Heap, adm.subject, adm.list))

TrajectoryOnObjects ==
    /\ adm.pc = "tacall"
    /\ Returned("tadone", TrajectoryRun(Heap, adm.subject, adm.list))

HolisticOnObjects ==
    /\ adm.pc = "hacall"
    /\ Returned("hadone", HolisticRun(Heap, adm.subject, adm.list))

NextPure ==
    \/ CheckAdmissibilityOnObjects
    \/ TrajectoryOnObjects
    \/ HolisticOnObjects
    \/ CallAgain

SpecPure == InitPure /\ [][NextPure]_vars

----------------------------------------------------------------------------
(* RoutingEngine.calculate_path called directly, on topologies with loaded,   *)
(* saturated and zero-capacity links (specification SpecRoute)               *)

MaxDsts == 3

\* (bw_used, bw_capacity) of the link 1->2: idle, half used, used between 0.99 and 1.0
\* of the capacity, saturated, above capacity, and without capacity
LoadChoices == { <<0, 100>>, <<50, 100>>, <<995, 1000>>, <<100, 100>>, <<150, 100>>,
                 <<0, 0>> }

Loaded(l, load) == [l EXCEPT !.bw_used = load[1], !.bw_capacity = load[2]]

\* the line 1-2-4 as link_add_handler records it when the discovery reports both
\* directions of each physical link
TwoWayLine ==
    << MkLink("1", "2", 1, 5000, 100), MkLink("2", "1", 1, 5000, 100),
       MkLink("2", "4", 2, 5000, 100), MkLink("4", "2", 1, 5000, 100) >>

\* the diamond with a load on 1->2 and 1->3; the diamond with its links found in
\* another order; the line 1->2->4; the two separate links 1->2 and 3->4; the line
\* 1->2->4 beside the separate link 3->5; the line with both directions of its links
RouteTopologies ==
    { TwoWayLine } \cup
    { << Loaded(DiamondLinks[1], a), Loaded(DiamondLinks[2], b),
         DiamondLinks[3], DiamondLinks[4] >> :
        a \in LoadChoices, b \in { <<0, 100>>, <<100, 100>> } }
    \cup { << DiamondLinks[1], DiamondLinks[2], DiamondLinks[4], DiamondLinks[3] >> }
    \cup { << Loaded(DiamondLinks[1], a), DiamondLinks[3] >> : a \in LoadChoices }
    \cup { << DiamondLinks[1], DiamondLinks[4] >> }
    \cup { << DiamondLinks[1], DiamondLinks[3], MkLink("3", "5", 1, 5000, 100) >> }

RECURSIVE ListsOver(_, _)
ListsOver(S, n) ==
    IF n = 0 THEN {<<>>}
    ELSE ListsOver(S, n - 1)
         \cup {Append(l, x) : l \in {m \in ListsOver(S, n - 1) : Len(m) = n - 1}, x \in S}

\* calculate_path(src, dsts): node 9 is in no topology; and the trees from node 1 to
\* the three other nodes of the diamond, on which the order of a set of labels tells
PathCalls ==
    { [pc |-> "call", src |-> src, dsts |-> dsts, result |-> <<>>] :
        src \in {"1", "4", "9"}, dsts \in ListsOver({"1", "2", "4", "9"}, MaxDsts) }
    \cup { [pc |-> "call", src |-> "1", dsts |-> dsts, result |-> <<>>] :
             dsts \in { <<"3", "4", "2">>, <<"2", "3", "4">>, <<"3", "4">> } }

MaxSubs == 2

\* the triangle 1-2-3 with equal weights
TriangleLinks ==
    << MkLink("1", "2", 1, 5000, 100),
       MkLink("2", "3", 1, 5000, 100),
       MkLink("1", "3", 2, 5000, 100) >>

\* the triangle, the triangle with its links found in another order, the triangle with
\* a load on 1->2, the diamond, the two separate links 1->2 and 3->4, and no link at all
RpTopologies ==
    { TriangleLinks,
      << TriangleLinks[2], TriangleLinks[1], TriangleLinks[3] >>,
      << TriangleLinks[3], TriangleLinks[2], TriangleLinks[1] >>,
      << Loaded(TriangleLinks[1], <<50, 100>>), TriangleLinks[2], TriangleLinks[3] >>,
      DiamondLinks,
      << DiamondLinks[1], DiamondLinks[4] >>,
      <<>> }

\* select_optimal_rp(subscribers): node 9 is in no topology
RpCalls ==
    { [pc |-> "rpcall", subscribers |-> subs, rp |-> ""] :
        subs \in ListsOver({"1", "2", "3", "4", "9"}, MaxSubs) }

InitRoute ==
    /\ \/ links \in RouteTopologies /\ pathcall \in PathCalls
       \/ links \in RpTopologies /\ pathcall \in RpCalls
    /\ set_order \in SetOrderChoices
    /\ flows = <<>> /\ objs = <<>> /\ subscribers = <<>>
    /\ datapaths = {} /\ sw_groups = {} /\ sw_meters = {} /\ sw_rules = {}
    /\ topic_hash = [t \in Topics |-> IF t = "tA" THEN 7 ELSE 12]
    /\ calls = {} /\ ops = 0
    /\ reg = [t \in Topics |-> [status |-> "none"]]
    /\ last = [op |-> "init"]
    /\ adm = [pc |-> "none"]
    /\ http = [handler |-> "none", status |-> 0]
    /\ msdp = [pc |-> "none"]
    /\ monitor = [pc |-> "none"]

CalculatePathCall ==
    /\ pathcall.pc = "call"
    /\ pathcall' = [pathcall EXCEPT
                      !.pc = "done",
                      !.result = CalculatePath(links, pathcall.src, pathcall.dsts, set_order)]
    /\ UNCHANGED <<links, flows, objs, subscribers, datapaths, sw_groups, sw_meters,
                   sw_rules, topic_hash, set_order, calls, ops, reg, last, adm, http,
                   msdp, monitor>>

SelectOptimalRpCall ==
    /\ pathcall.pc = "rpcall"
    /\ pathcall' = [pathcall EXCEPT
                      !.pc = "rpdone",
                      !.rp = SelectOptimalRp(links, pathcall.subscribers)]
    /\ UNCHANGED <<links, flows, objs, subscribers, datapaths, sw_groups, sw_meters,
                   sw_rules, topic_hash, set_order, calls, ops, reg, last, adm, http,
                   msdp, monitor>>

NextRoute == CalculatePathCall \/ SelectOptimalRpCall

SpecRoute == InitRoute /\ [][NextRoute]_vars

----------------------------------------------------------------------------
(* sdn_controller/msdp.py: the MSDP listener and its peer-handler threads     *)
(* (specification SpecMsdp)                                                   *)

MaxPeers == 3

SourceIps == {"10.0.0.1", "10.0.0.2"}

\* what client.recv(1024).decode() yields: a JSON object with the keys type, topic and
\* src_ip, nothing (the peer closed), or bytes that json.loads refuses
PeerData ==
    { [kind |-> "json", type |-> "SA", topic |-> t, src_ip |-> ip] :
        t \in Topics, ip \in SourceIps }
    \cup { [kind |-> "json", type |-> "KEEPALIVE", topic |-> "tA", src_ip |-> "10.0.0.2"],
           [kind |-> "empty", type |-> "", topic |-> "", src_ip |-> ""],
           [kind |-> "invalid", type |-> "", topic |-> "", src_ip |-> ""] }

\* MSDP_Signaling.__init__ and start_listener
InitMsdp ==
    /\ Boot
    /\ topic_hash = [t \in Topics |-> IF t = "tA" THEN 7 ELSE 12]
    /\ set_order \in SetOrderChoices
    /\ adm = [pc |-> "none"]
    /\ http = [handler |-> "none", status |-> 0]
    /\ pathcall = [pc |-> "none"]
    /\ monitor = [pc |-> "none"]
    /\ msdp = [pc |-> "listening", active_sources |-> <<>>, peers |-> <<>>]

\* _listen_loop: accept a connection and start a thread on _handle_peer
ListenLoop(data) ==
    /\ msdp.pc = "listening"
    /\ Len(msdp.peers) < MaxPeers
    /\ msdp' = [msdp EXCEPT !.peers = Append(@, [pc |-> "recv", data |-> data])]
    /\ UNCHANGED <<links, flows, objs, subscribers, datapaths, sw_groups, sw_meters,
                   sw_rules, topic_hash, set_order, calls, ops, reg, last, adm, http,
                   pathcall, monitor>>

\* the position of a peer-handler thread after recv, json.loads and process_sa_message
\* up to and including the test "topic not in self.active_sources"
AfterTest(data, active_sources) ==
    IF /\ data.kind = "json" /\ data.type = "SA"
       /\ data.topic \notin DOMAIN active_sources
    THEN "store"
    ELSE "closed"

\* _handle_peer of thread i, up to the test of process_sa_message
HandlePeer(i) ==
    /\ msdp.peers[i].pc = "recv"
    /\ msdp' = [msdp EXCEPT
                  !.peers[i].pc = AfterTest(msdp.peers[i].data, msdp.active_sources)]
    /\ UNCHANGED <<links, flows, objs, subscribers, datapaths, sw_groups, sw_meters,
                   sw_rules, topic_hash, set_order, calls, ops, reg, last, adm, http,
                   pathcall, monitor>>

\* process_sa_message of thread i: self.active_sources[topic] = src_ip, and the
\* finally clause of _handle_peer
ProcessSaMessage(i) ==
    /\ msdp.peers[i].pc = "store"
    /\ msdp' = [msdp EXCEPT
                  !.active_sources = Put(@, msdp.peers[i].data.topic,
                                         msdp.peers[i].data.src_ip),
                  !.peers[i].pc = "closed"]
    /\ UNCHANGED <<links, flows, objs, subscribers, datapaths, sw_groups, sw_meters,
                   sw_rules, topic_hash, set_order, calls, ops, reg, last, adm, http,
                   pathcall, monitor>>

NextMsdp ==
    \/ \E data \in PeerData : ListenLoop(data)
    \/ \E i \in 1..MaxPeers : i <= Len(msdp.peers) /\ HandlePeer(i)
    \/ \E i \in 1..MaxPeers : i <= Len(msdp.peers) /\ ProcessSaMessage(i)

SpecMsdp == InitMsdp /\ [][NextMsdp]_vars

----------------------------------------------------------------------------
(* simulation/monitor.py: NetworkMonitor (specification SpecMon)              *)

MaxPasses == 22

\* the number of probes of a run that are not the nominal one
MaxDeviations == 1

\* what one call of _get_latency meets: in simulation mode the noise drawn by
\* random.uniform(-0.5, 0.5); otherwise a reply after rtt, no management address, a
\* timeout of sr1, scapy missing, or an exception of the probe
Probes(simulation_mode) ==
    IF simulation_mode
    THEN { [kind |-> "noise", value |-> n] : n \in {-500, 0, 500} }
    ELSE { [kind |-> "reply", value |-> 10000] }
         \cup { [kind |-> k, value |-> 0] :
                  k \in {"no_address", "timeout", "import_error", "raises"} }

Nominal(probe) == probe.kind = "reply" \/ (probe.kind = "noise" /\ probe.value = 0)

\* an exception that leaves _get_latency
ProbeRaised == -1

\* a _get_latency without its except clauses
GetLatencyUnguarded(simulation_mode, link, probe) ==
    IF simulation_mode
    THEN 5000 + probe.value
         + (IF link.bw_capacity > 0 THEN (link.bw_used * 2000) \div link.bw_capacity ELSE 0)
    ELSE IF probe.kind = "reply" THEN probe.value \div 2
    ELSE IF probe.kind \in {"import_error", "raises"} THEN ProbeRaised
    ELSE 100

\* NetworkMonitor._get_latency, in units of 0.001 ms
GetLatency(simulation_mode, link, probe) ==
    IF simulation_mode
    THEN 5000 + probe.value
         + (IF link.bw_capacity > 0 THEN (link.bw_used * 2000) \div link.bw_capacity ELSE 0)
    ELSE IF probe.kind = "reply" THEN probe.value \div 2
    ELSE 100

\* the largest r in lo..hi with r * r <= v
RECURSIVE ISqrtIn(_, _, _)
ISqrtIn(v, lo, hi) ==
    IF lo >= hi THEN lo
    ELSE IF ((lo + hi + 1) \div 2) * ((lo + hi + 1) \div 2) <= v
    THEN ISqrtIn(v, (lo + hi + 1) \div 2, hi)
    ELSE ISqrtIn(v, lo, ((lo + hi + 1) \div 2) - 1)

\* statistics.stdev, rounded down: the sample variance is the sum of the squared
\* differences of all pairs divided by n * (n - 1)
Stdev(h) ==
    ISqrtIn(SumSeq([i \in 1..Len(h) |->
                      SumSeq([j \in 1..Len(h) |->
                                IF i < j THEN (h[i] - h[j]) * (h[i] - h[j]) ELSE 0])])
               \div (Len(h) * (Len(h) - 1)),
            0, 10000)

\* a history that loses its newest sample instead of its oldest
TrimmedAtTheEnd(h) == IF Len(h) > 20 THEN SubSeq(h, 1, 20) ELSE h

\* if len(self.history[key]) > 20: self.history[key].pop(0)
Trimmed(h) == IF Len(h) > 20 THEN Tail(h) ELSE h

HistoryOf(history, key) == IF key \in DOMAIN history THEN history[key] ELSE <<>>

\* a sample that is also booked as load of the link
WithSampleAsLoad(st, i, measured, h) ==
    [st EXCEPT !.history = Put(@, LinkKey(st.links[i]), h),
               !.links[i].prop_delay = measured,
               !.links[i].bw_used = measured,
               !.links[i].jitter = IF Len(h) > 1 THEN Stdev(h) ELSE 0]

\* the body of the loop of _measure_links for link i, h being the new history of it
WithSample(st, i, measured, h) ==
    [st EXCEPT !.history = Put(@, LinkKey(st.links[i]), h),
               !.links[i].prop_delay = measured,
               !.links[i].jitter = IF Len(h) > 1 THEN Stdev(h) ELSE 0]

\* NetworkMonitor.__init__: no history; the thread of start_monitoring is before its
\* first pass and holds no link
NewMonitor(simulation_mode) ==
    [pc |-> "sleeping", simulation_mode |-> simulation_mode, history |-> <<>>,
     passes |-> 0, deviations |-> 0, probes |-> <<>>, at |-> 0, used |-> 0,
     link |-> MkLink("9", "9", 0, 0, 0), replaced |-> FALSE]

\* NetworkMonitor.__init__ and start_monitoring, over two links of which the first is
\* half used and the second has no capacity, with one flow routed over them
InitMon ==
    /\ links = << Loaded(DiamondLinks[1], <<50, 100>>), Loaded(DiamondLinks[3], <<0, 0>>) >>
    /\ monitor \in { NewMonitor(m) : m \in BOOLEAN }
    /\ set_order \in DiamondSetOrders
    /\ flows = [t \in {"tA"} |-> 1]
    /\ objs = << RoutedFlow("tA", 0, 10, 50000, PathVia2) >>
    /\ subscribers = [t \in {"tA"} |-> {"4"}]
    /\ datapaths = {1, 2, 4} /\ sw_groups = {} /\ sw_meters = {} /\ sw_rules = {}
    /\ topic_hash = [t \in Topics |-> IF t = "tA" THEN 7 ELSE 12]
    /\ calls = {} /\ ops = 0
    /\ reg = [t \in Topics |-> [status |-> "none"]]
    /\ last = [op |-> "init"]
    /\ adm = [pc |-> "none"]
    /\ http = [handler |-> "none", status |-> 0]
    /\ pathcall = [pc |-> "none"]
    /\ msdp = [pc |-> "none"]

\* what the monitor thread, a routing query and link_add_handler leave alone
RaceFrame ==
    UNCHANGED <<flows, objs, subscribers, datapaths, sw_groups, sw_meters, sw_rules,
                topic_hash, set_order, calls, reg, last, adm, http, msdp>>

\* the state ls of of_db.links holds every link as the query has read it so far
Agrees(ls, read) ==
    /\ Len(ls) >= Len(read)
    /\ \A i \in 1..Len(read) : ls[i] = read[i]

\* the states of of_db.links that a query in progress has met and that agree with
\* what it has read
Met(ls) ==
    IF pathcall.pc = "building" /\ Agrees(ls, pathcall.read)
    THEN [pathcall EXCEPT !.seen = @ \cup {ls}]
    ELSE pathcall

\* _monitor_loop after time.sleep(5): _measure_links makes the iterator of
\* links.items() over the dictionary as it is
MeasureLinksEnter(max_passes) ==
    /\ monitor.pc = "sleeping"
    /\ monitor.passes < max_passes
    /\ monitor' = [monitor EXCEPT !.pc = "measuring", !.at = 0, !.used = Len(links),
                                  !.probes = <<>>]
    /\ UNCHANGED <<links, pathcall, ops>>
    /\ RaceFrame

\* "for key, link in links.items()": the iterator raises RuntimeError when the
\* dictionary has changed size, which leaves _measure_links and ends _monitor_loop;
\* after the last link the pass is over and the thread sleeps; otherwise the loop
\* holds the next Link object
MeasureLinksNext ==
    /\ monitor.pc = "measuring"
    /\ monitor' = IF monitor.used # Len(links)
                  THEN [monitor EXCEPT !.pc = "dead"]
                  ELSE IF monitor.at = Len(links)
                  THEN [monitor EXCEPT !.pc = "sleeping", !.passes = @ + 1]
                  ELSE [monitor EXCEPT !.pc = "probing", !.at = @ + 1,
                                       !.link = links[monitor.at + 1],
                                       !.replaced = FALSE]
    /\ UNCHANGED <<links, pathcall, ops>>
    /\ RaceFrame

\* the body of the loop: _get_latency returns (in real mode after the wait of sr1),
\* the sample enters the history of the key, and prop_delay and jitter are written to
\* the Link object that the loop holds, which is no longer the one of of_db.links when
\* link_add_handler has replaced the entry in the meantime
MeasureLinksTurn(probe) ==
    /\ monitor.pc = "probing"
    /\ monitor.deviations + (IF Nominal(probe) THEN 0 ELSE 1) <= MaxDeviations
    /\ IF GetLatency(monitor.simulation_mode, monitor.link, probe) = ProbeRaised
       THEN /\ monitor' = [monitor EXCEPT !.pc = "dead"]
            /\ UNCHANGED <<links, pathcall>>
       ELSE /\ links' = IF monitor.replaced THEN links
                        ELSE WithSample(
                               [links |-> links, history |-> monitor.history],
                               monitor.at,
                               GetLatency(monitor.simulation_mode, monitor.link, probe),
                               Trimmed(Append(HistoryOf(monitor.history,
                                                        LinkKey(monitor.link)),
                                              GetLatency(monitor.simulation_mode,
                                                         monitor.link, probe)))).links
            /\ monitor' = [monitor EXCEPT
                             !.pc = "measuring",
                             !.deviations = @ + (IF Nominal(probe) THEN 0 ELSE 1),
                             !.probes = Append(@, probe),
                             !.history = WithSample(
                                 [links |-> links, history |-> monitor.history],
                                 monitor.at,
                                 GetLatency(monitor.simulation_mode, monitor.link, probe),
                                 Trimmed(Append(HistoryOf(monitor.history,
                                                          LinkKey(monitor.link)),
                                                GetLatency(monitor.simulation_mode,
                                                           monitor.link,
                                                           probe)))).history]
            /\ pathcall' = Met(links')
    /\ UNCHANGED ops
    /\ RaceFrame

NextMon ==
    \/ MeasureLinksEnter(MaxPasses)
    \/ MeasureLinksNext
    \/ \E probe \in Probes(monitor.simulation_mode) : MeasureLinksTurn(probe)

SpecMon == InitMon /\ [][NextMon]_vars

----------------------------------------------------------------------------
(* The monitor thread, a routing query and link_add_handler running side by   *)
(* side over of_db.links, one step per turn of the loops over the dictionary  *)
(* (specification SpecRace). Neither monitor.py nor routing.py takes a lock.  *)

MaxRacePasses == 2

\* the link events of one run
MaxLinkEvents == 2

\* Link(src, dst, port_out) of link_add_handler: a Link with the default values of
\* the class, no delay and no load, with or without a default capacity
DefaultLinks(s, d, p) == { MkLink(s, d, p, 0, cap) : cap \in {0, 100} }

\* the links that the discovery reports: 1->2 once more and 1->3 for the first time
LateLinks == DefaultLinks("1", "2", 1) \cup DefaultLinks("1", "3", 2)

InitRace ==
    /\ links = << DiamondLinks[1], DiamondLinks[3] >>
    /\ monitor \in { NewMonitor(m) : m \in BOOLEAN }
    /\ pathcall = [pc |-> "idle", at |-> 0, used |-> 0, read |-> <<>>, seen |-> {}]
    /\ set_order \in DiamondSetOrders
    /\ flows = <<>> /\ objs = <<>> /\ subscribers = <<>>
    /\ datapaths = {1, 2, 4} /\ sw_groups = {} /\ sw_meters = {} /\ sw_rules = {}
    /\ topic_hash = [t \in Topics |-> IF t = "tA" THEN 7 ELSE 12]
    /\ calls = {} /\ ops = 0
    /\ reg = [t \in Topics |-> [status |-> "none"]]
    /\ last = [op |-> "init"]
    /\ adm = [pc |-> "none"]
    /\ http = [handler |-> "none", status |-> 0]
    /\ msdp = [pc |-> "none"]

\* of_db.add_link(src, dst, port_out, link_data): links[key] = link_data, a new key at
\* the end of the dictionary, an existing key in its place with the new object
AddLink(ls, l) ==
    IF \E i \in 1..Len(ls) : LinkKey(ls[i]) = LinkKey(l)
    THEN [i \in 1..Len(ls) |-> IF LinkKey(ls[i]) = LinkKey(l) THEN l ELSE ls[i]]
    ELSE Append(ls, l)

\* link_add_handler; a loop of the monitor that holds the Link object of the key keeps
\* the object that of_db.links has lost
LinkAddHandler(l) ==
    /\ ops < MaxLinkEvents
    /\ ops' = ops + 1
    /\ links' = AddLink(links, l)
    /\ pathcall' = Met(links')
    /\ monitor' = IF monitor.pc = "probing" /\ LinkKey(monitor.link) = LinkKey(l)
                  THEN [monitor EXCEPT !.replaced = TRUE]
                  ELSE monitor
    /\ RaceFrame

\* _build_graph: links = of_db.links; for key, link in links.items()
BuildGraphEnter ==
    /\ pathcall.pc = "idle"
    /\ pathcall' = [pathcall EXCEPT !.pc = "building", !.at = 0, !.used = Len(links),
                                    !.read = <<>>, !.seen = {links}]
    /\ UNCHANGED <<links, monitor, ops>>
    /\ RaceFrame

\* one turn of the loop of _build_graph: RuntimeError when the dictionary has changed
\* size, the end of the loop after the last link, otherwise the delays and the load
\* of the link are read for its weight
BuildGraphTurn ==
    /\ pathcall.pc = "building"
    /\ pathcall' = IF pathcall.used # Len(links)
                   THEN [pathcall EXCEPT !.pc = "raised"]
                   ELSE IF pathcall.at = Len(links)
                   THEN [pathcall EXCEPT !.pc = "built"]
                   ELSE [pathcall EXCEPT
                           !.at = @ + 1,
                           !.read = Append(@, links[pathcall.at + 1]),
                           !.seen = {ls \in @ :
                                       Agrees(ls, Append(pathcall.read,
                                                         links[pathcall.at + 1]))}]
    /\ UNCHANGED <<links, monitor, ops>>
    /\ RaceFrame

NextRace ==
    \/ MeasureLinksEnter(MaxRacePasses)
    \/ MeasureLinksNext
    \/ \E probe \in Probes(monitor.simulation_mode) : MeasureLinksTurn(probe)
    \/ \E l \in LateLinks : LinkAddHandler(l)
    \/ BuildGraphEnter
    \/ BuildGraphTurn

SpecRace == InitRace /\ [][NextRace]_vars

----------------------------------------------------------------------------
(* Properties of the registry after the handlers (specification Spec)        *)

\* the step in which the handler c returns
ReturnOf(c) == c \in calls /\ \A d \in calls' : d.n # c.n

\* the step in which the handler c returns, no other handler having run since it was
\* entered: what it found is c.before, what it leaves is the state after the step
AloneReturnOf(c) == ReturnOf(c) /\ c.alone

\* C1: after every operation, every flow in the registry has a Trajectory-Approach
\* bound, taken over the routes the registered flows hold, of at most its deadline
RegisteredFlowsMeetDeadlines ==
    calls = {}
    => \A t \in DOMAIN flows :
          TaWcrt(links, GetAllFlows[t], FlowValues(flows, objs)) <= GetAllFlows[t].di

\* C2: a register_rt_flow that rejects leaves the flow registry exactly as it was
\* before the call (a rejected new topic is not in it)
RejectionWritesNothing ==
    [][\A c \in calls :
          (AloneReturnOf(c) /\ c.op = "register" /\ reg'[c.topic].status = "rejected")
          => GetAllFlows' = c.before.flows]_vars

\* the bandwidth the registered flows reserve on a link
ReservedOn(key) ==
    SumSeq([i \in 1..Len(FlowValues(flows, objs)) |->
               IF InSeq(key, FlowValues(flows, objs)[i].route_links)
               THEN FlowValues(flows, objs)[i].bwi ELSE 0])

\* C3: after every operation, bw_used of every link is the sum of bwi over the
\* registered flows whose route_links contain the link
BandwidthAccounted ==
    calls = {}
    => \A i \in 1..Len(links) : links[i].bw_used = ReservedOn(LinkKey(links[i]))

\* C5: a registration that was admitted has judged the candidate on the route it is
\* committed on: the bound of the flow on that route, with no other flow counted,
\* is at most its deadline
AdmittedOnCommittedRoute ==
    (last.op = "register" /\ last.alone /\ reg[last.topic].status = "admitted")
    => TaWcrt(links, GetAllFlows[last.topic], <<GetAllFlows[last.topic]>>)
           <= GetAllFlows[last.topic].di

\* the nodes of a route, and the nodes that links of the route join to a set of nodes
RouteNodes(f) ==
    {f.src_ip} \cup {f.route_links[i][1] : i \in 1..Len(f.route_links)}
               \cup {f.route_links[i][2] : i \in 1..Len(f.route_links)}

RECURSIVE ReachedIn(_, _)
ReachedIn(route, ns) ==
    LET more == {route[i][2] : i \in {j \in 1..Len(route) : route[j][1] \in ns}}
                \cup {route[i][1] : i \in {j \in 1..Len(route) : route[j][2] \in ns}}
    IN  IF more \subseteq ns THEN ns ELSE ReachedIn(route, ns \cup more)

\* connected from src_ip and without a cycle: one link less than nodes
IsTree(f) ==
    /\ ReachedIn(f.route_links, {f.src_ip}) = RouteNodes(f)
    /\ Len(f.route_links) = Cardinality(RouteNodes(f)) - 1

\* C6: after every operation, route_links of every registered flow is a tree that
\* contains src_ip, every node of dst_ips and, for qi > 0, every node of broker_ips
RouteIsTreeOverEndpoints ==
    calls = {}
    => \A t \in DOMAIN flows :
          /\ IsTree(GetAllFlows[t])
          /\ Range(GetAllFlows[t].dst_ips) \subseteq RouteNodes(GetAllFlows[t])
          /\ GetAllFlows[t].qi > 0
               => Range(GetAllFlows[t].broker_ips) \subseteq RouteNodes(GetAllFlows[t])

\* C9: registering again a topic that is admitted, with the same arguments, changes
\* nothing: the same topics are registered, every flow keeps its multicast_group_id
\* and its dst_ips, and the group tables and the links are as before
ReRegistrationIsNoOp ==
    [][\A c \in calls :
          (AloneReturnOf(c) /\ c.op = "register" /\ c.again)
          => /\ DOMAIN flows' = DOMAIN c.before.flows
             /\ \A t \in DOMAIN c.before.flows :
                   /\ GetAllFlows'[t].multicast_group_id
                         = c.before.flows[t].multicast_group_id
                   /\ GetAllFlows'[t].dst_ips = c.before.flows[t].dst_ips
             /\ sw_groups' = c.before.tables.groups
             /\ links' = c.before.links]_vars

\* C10: a handle_new_subscriber(topic, sub_ip) that follows the same call leaves the
\* subscriber sets, dst_ips and route_links of every flow, bw_used of every link and
\* the group tables of the switches as they were
RepeatedJoinChangesNothing ==
    [][\A c \in calls :
          (AloneReturnOf(c) /\ c.op = "join" /\ c.again)
          => /\ subscribers' = c.before.subscribers
             /\ links' = c.before.links
             /\ sw_groups' = c.before.tables.groups
             /\ DOMAIN flows' = DOMAIN c.before.flows
             /\ \A t \in DOMAIN c.before.flows :
                   /\ GetAllFlows'[t].dst_ips = c.before.flows[t].dst_ips
                   /\ GetAllFlows'[t].route_links = c.before.flows[t].route_links]_vars

\* a join was repeated on a registered topic whose tree reaches the subscriber
RepeatedJoinReached ==
    /\ last.op = "join" /\ last.again /\ last.alone
    /\ last.topic \in DOMAIN flows
    /\ GetAllFlows[last.topic].route_links # <<>>
    /\ InSeq(last.sub_ip, GetAllFlows[last.topic].dst_ips)
    /\ last.sub_ip \in RouteNodes(GetAllFlows[last.topic])

----------------------------------------------------------------------------
(* Properties of concurrent requests (specification Spec)                    *)

\* the step in which the registration c takes its admission decision
AdmissionDecision(c) ==
    /\ c.op = "register" /\ c.pc = "admit"
    /\ \A d \in calls' : d.n = c.n => d.pc # "admit"

\* C7: registrations are serialized: no register_rt_flow takes its admission decision
\* while another registration is between its of_db.add_flow and its return
RegistrationsSerialized ==
    [][\A c \in calls :
          AdmissionDecision(c) => ~(\E d \in calls \ {c} : d.op = "register")]_vars

\* C8: once a join of a topic and the registration of the topic have both returned,
\* in whatever way they were interleaved, and the topic is admitted, every subscriber
\* that joined is in dst_ips of the flow and on its route
JoinSerializedWithRegistration ==
    \A t \in DOMAIN flows :
        (reg[t].status = "admitted" /\ ~(\E c \in calls : c.topic = t)
            /\ t \in DOMAIN subscribers)
        => \A s \in subscribers[t] :
              /\ InSeq(s, GetAllFlows[t].dst_ips)
              /\ s \in RouteNodes(GetAllFlows[t])

----------------------------------------------------------------------------
(* Properties of check_admissibility (specification SpecAdm)                 *)

\* the flow set F' = F \cup {f*}
CandidateSet(new_flow, existing_flows) == SeqOfSet(Range(existing_flows) \cup {new_flow})

\* C4: check_admissibility(f*, F) is True exactly when, over F' = F \cup {f*}, the
\* bound of f* is at most di(f*) and the bound of every g in F is at most di(g); a
\* bound equal to the deadline is admitted. F is any list with one flow per topic,
\* the lists that already hold the candidate included.
AdmitsExactlyTheSchedulable ==
    adm.pc = "done"
    => adm.result =
         (/\ TaWcrt(links, adm.new_flow,
                    CandidateSet(adm.new_flow, adm.existing_flows)) <= adm.new_flow.di
          /\ \A g \in Range(adm.existing_flows) :
                TaWcrt(links, g, CandidateSet(adm.new_flow, adm.existing_flows)) <= g.di)

----------------------------------------------------------------------------
(* Properties of the graft (specification Spec)                              *)

\* the nodes joined to src in the routing graph of the topology
ConnectedTo(ls, src) == DOMAIN Dijkstra(BuildGraph(ls), src, "").dist

\* C11: handle_new_subscriber(topic, sub_ip) on an admitted topic puts sub_ip into
\* subscribers(topic) and dst_ips, stores as route_links the tree computed over the
\* enlarged dst_ips, and that route joins sub_ip to src_ip whenever the topology does
JoinGraftsSubscriber ==
    [][\A c \in calls :
          (AloneReturnOf(c) /\ c.op = "join" /\ c.topic \in DOMAIN c.before.flows
           /\ c.before.reg[c.topic].status = "admitted")
          => /\ c.args.sub_ip \in subscribers'[c.topic]
             /\ InSeq(c.args.sub_ip, GetAllFlows'[c.topic].dst_ips)
             /\ Range(c.before.flows[c.topic].dst_ips)
                   \subseteq Range(GetAllFlows'[c.topic].dst_ips)
             /\ GetAllFlows'[c.topic].route_links
                   = CalculatePath(links, GetAllFlows'[c.topic].src_ip,
                                   GetAllFlows'[c.topic].dst_ips, set_order)
             /\ (c.args.sub_ip \in ConnectedTo(links, GetAllFlows'[c.topic].src_ip)
                 => c.args.sub_ip \in ReachedIn(GetAllFlows'[c.topic].route_links,
                                                {GetAllFlows'[c.topic].src_ip}))]_vars

\* a first join added a second destination to an admitted flow and its tree reaches it
JoinGraftedSecondDestination ==
    /\ last.op = "join" /\ ~last.again /\ last.alone
    /\ last.topic \in DOMAIN flows
    /\ reg[last.topic].status = "admitted"
    /\ Len(GetAllFlows[last.topic].dst_ips) >= 2
    /\ GetAllFlows[last.topic].dst_ips[Len(GetAllFlows[last.topic].dst_ips)] = last.sub_ip
    /\ last.sub_ip \in ReachedIn(GetAllFlows[last.topic].route_links,
                                 {GetAllFlows[last.topic].src_ip})
    /\ Len(GetAllFlows[last.topic].route_links) >= 2

----------------------------------------------------------------------------
(* Properties of the commit to the switches (specification Spec)             *)

\* the switch holds the meter, the group and a flow rule of the flow
ProgrammedOn(dpid, f) ==
    /\ \E m \in sw_meters : m.dpid = dpid /\ m.mid = f.multicast_group_id
    /\ \E g \in sw_groups : g.dpid = dpid /\ g.gid = f.multicast_group_id
    /\ \E r \in sw_rules : /\ r.dpid = dpid /\ r.gid = f.multicast_group_id
                           /\ r.match = MatchOf(f) /\ r.priority = 100 + f.pi

\* C12: a flow for which register_rt_flow returned True and that is in the registry
\* has the meter, the group and the flow rule on every switch that is the source of
\* a link of its tree
CommittedFlowsAreProgrammed ==
    calls = {}
    => \A t \in DOMAIN flows :
          (reg[t].status = "admitted" /\ GetAllFlows[t].qi = 0)
          => \A i \in 1..Len(GetAllFlows[t].route_links) :
                ProgrammedOn(DpidOf(GetAllFlows[t].route_links[i][1]), GetAllFlows[t])

----------------------------------------------------------------------------
(* Properties of infeasible requests (specification Spec)                    *)

\* the request names a source outside the topology, destinations of which none is in
\* the topology, or endpoints that no path joins
Infeasible(ls, args) ==
    \/ ~InSeq(args.src_ip, BuildGraph(ls).nodes)
    \/ /\ args.a.dst_ips # <<>>
       /\ \A i \in 1..Len(args.a.dst_ips) :
             ~InSeq(args.a.dst_ips[i], BuildGraph(ls).nodes)
    \/ /\ args.a.dst_ips # <<>>
       /\ \A i \in 1..Len(args.a.dst_ips) :
             args.a.dst_ips[i] \notin ConnectedTo(ls, args.src_ip)

\* C13: a register_rt_flow whose request is infeasible returns False and leaves the
\* registry, bw_used of the links and the tables of the switches as they were
InfeasibleRegistrationRefused ==
    [][\A c \in calls :
          (AloneReturnOf(c) /\ c.op = "register" /\ Infeasible(c.before.links, c.args))
          => /\ reg'[c.topic].status = "rejected"
             /\ GetAllFlows' = c.before.flows
             /\ links' = c.before.links
             /\ Tables' = c.before.tables]_vars

----------------------------------------------------------------------------
(* Properties of the northbound handlers (specification SpecRest)            *)

\* the body is no JSON, or holds no topic, or holds no rt_attributes (register_flow)
\* or no subscriber_ip (register_subscriber): an empty body and a JSON value that is
\* no object hold neither
Malformed(r) ==
    \/ r.request.kind # "object"
    \/ Missing(r.request, "topic")
    \/ IF r.handler = "register_flow" THEN NoAttributes(r.request)
       ELSE Missing(r.request, "subscriber_ip")

\* C14: register_flow answers 400 without a registration for a body that is not JSON
\* or lacks topic or rt_attributes, 200 exactly when register_rt_flow returned True and
\* 503 exactly when it returned False; register_subscriber answers 400 and changes
\* nothing when topic or subscriber_ip is missing, and 200 otherwise
HandlersAnswerByOutcome ==
    /\ [][(http' # http /\ Malformed(http'))
            => /\ http'.status = 400
               /\ UNCHANGED <<links, flows, objs, subscribers, datapaths, sw_groups,
                              sw_meters, sw_rules, calls, reg, last>>]_vars
    /\ [][\A c \in calls' \ calls :
             c.pc \in {"admit", "graft"}
             => /\ c.request # <<>> /\ ~Malformed([handler |-> c.request[1].handler,
                                                   request |-> c.request[1].body])
                /\ c.topic = c.request[1].body.topic
                /\ IF c.op = "register"
                   THEN /\ c.request[1].handler = "register_flow"
                        /\ c.args.a = c.request[1].body.rt_attributes
                   ELSE /\ c.request[1].handler = "register_subscriber"
                        /\ c.args.sub_ip = c.request[1].body.subscriber_ip]_vars
    /\ [][\A c \in calls :
             ReturnOf(c)
             => /\ http'.handler = c.request[1].handler
                /\ http'.request = c.request[1].body
                /\ IF c.op = "register"
                   THEN /\ http'.status \in {200, 503}
                        /\ http'.status = 200 <=> reg'[c.topic].status = "admitted"
                        /\ http'.status = 503 <=> reg'[c.topic].status = "rejected"
                   ELSE http'.status = 200]_vars
    /\ [][(http' # http /\ ~Malformed(http'))
            => /\ http'.status \in {200, 503}
               /\ \E c \in calls : ReturnOf(c)]_vars

----------------------------------------------------------------------------
(* Properties of the group and meter tables (specification Spec)             *)

\* the topic is registered with a tree of its own: qi = 0, and a group id that no other
\* registered flow holds
OwnsItsGroups(t) ==
    /\ reg[t].status = "admitted" /\ GetAllFlows[t].qi = 0
    /\ \A u \in DOMAIN flows \ {t} :
          GetAllFlows[u].multicast_group_id # GetAllFlows[t].multicast_group_id

\* C15: the groups and meters that a switch holds for a registered flow are those of
\* the current tree of the flow: one group with the output ports of the tree on each
\* switch that is the source of a link of the tree, and no group or meter elsewhere
SwitchesHoldTheCurrentTree ==
    \A t \in DOMAIN flows :
        (calls = {} /\ OwnsItsGroups(t))
        => /\ \A g \in sw_groups :
                 g.gid = GetAllFlows[t].multicast_group_id
                 => \E i \in 1..Len(FwdMap(links, GetAllFlows[t].route_links)) :
                       /\ FwdMap(links, GetAllFlows[t].route_links)[i].dpid = g.dpid
                       /\ FwdMap(links, GetAllFlows[t].route_links)[i].ports = g.ports
           /\ \A m \in sw_meters :
                 m.mid = GetAllFlows[t].multicast_group_id
                 => \E i \in 1..Len(GetAllFlows[t].route_links) :
                       DpidOf(GetAllFlows[t].route_links[i][1]) = m.dpid

----------------------------------------------------------------------------
(* Properties of the group ids (specification Spec)                          *)

\* C16: no two registered flows hold the same multicast_group_id (which is also their
\* meter id) once it is assigned
GroupIdsAreDistinct ==
    \A t \in DOMAIN flows : \A u \in DOMAIN flows \ {t} :
        (calls = {} /\ GetAllFlows[t].multicast_group_id # 0)
        => GetAllFlows[t].multicast_group_id # GetAllFlows[u].multicast_group_id

----------------------------------------------------------------------------
(* Properties of calculate_path (specification SpecRoute)                    *)

\* the list without the repetitions of its elements
RECURSIVE WithoutDuplicatesFrom(_, _)
WithoutDuplicatesFrom(dsts, acc) ==
    IF dsts = <<>> THEN acc
    ELSE WithoutDuplicatesFrom(Tail(dsts),
                               IF InSeq(Head(dsts), acc) THEN acc ELSE Append(acc, Head(dsts)))

WithoutDuplicates(dsts) == WithoutDuplicatesFrom(dsts, <<>>)

\* C17: calculate_path returns the same set of links for a list of destinations as for
\* the list without its duplicates, and so the forwarding map of both is the same
DuplicatesRoutedAsOne ==
    pathcall.pc = "done"
    => /\ Range(pathcall.result)
            = Range(CalculatePath(links, pathcall.src,
                                  WithoutDuplicates(pathcall.dsts), set_order))
       /\ Range(FwdMap(links, pathcall.result))
            = Range(FwdMap(links, CalculatePath(links, pathcall.src,
                                                WithoutDuplicates(pathcall.dsts),
                                                set_order)))

\* (prop + switch + proc) / (1 - u) with u = min(bw_used / bw_capacity, 0.99)
WeightCappedAt99(l) ==
    IF 100 * l.bw_used <= 99 * l.bw_capacity
    THEN ((l.prop_delay + l.switch_delay + l.proc_delay) * l.bw_capacity)
            \div (l.bw_capacity - l.bw_used)
    ELSE 100 * (l.prop_delay + l.switch_delay + l.proc_delay)

\* C18: the weight of the edge of every link with bw_capacity > 0 is the static delay
\* over 1 - u with u = min(bw_used / bw_capacity, 0.99), whatever bw_used is, and is
\* not negative
WeightsUseCappedUtilization ==
    pathcall.pc = "done"
    => \A i \in 1..Len(BuildGraph(links).edges) :
          LinkOf(links, BuildGraph(links).edges[i].link_obj).bw_capacity > 0
          => /\ BuildGraph(links).edges[i].weight
                   = WeightCappedAt99(LinkOf(links, BuildGraph(links).edges[i].link_obj))
             /\ BuildGraph(links).edges[i].weight >= 0

\* the simple paths of the graph that lead from the end of the node path p to dst
RECURSIVE SimplePathsFrom(_, _, _)
SimplePathsFrom(G, p, dst) ==
    IF p[Len(p)] = dst THEN {p}
    ELSE UNION { SimplePathsFrom(G, Append(p, n), dst) :
                   n \in {m \in Range(Adj(G, p[Len(p)])) : ~InSeq(m, p)} }

PathCost(G, p) == SumSeq([i \in 1..(Len(p) - 1) |-> EdgeOf(G, p[i], p[i + 1]).weight])

RouteCost(ls, route) == SumSeq([i \in 1..Len(route) |-> LinkWeight(LinkOf(ls, route[i]))])

\* a unicast call has returned a path over a link without capacity
RoutedOverZeroCapacity ==
    /\ pathcall.pc = "done" /\ Len(pathcall.dsts) = 1
    /\ \E i \in 1..Len(pathcall.result) :
          LinkOf(links, pathcall.result[i]).bw_capacity = 0

\* every edge of a link without capacity weighs 100 times the static delay of the link
ZeroCapacityWeighsHundredfold ==
    \A i \in 1..Len(BuildGraph(links).edges) :
        LinkOf(links, BuildGraph(links).edges[i].link_obj).bw_capacity = 0
        => BuildGraph(links).edges[i].weight
              = 100 * ( LinkOf(links, BuildGraph(links).edges[i].link_obj).prop_delay
                      + LinkOf(links, BuildGraph(links).edges[i].link_obj).switch_delay
                      + LinkOf(links, BuildGraph(links).edges[i].link_obj).proc_delay )

\* C19: a link with bw_capacity = 0 weighs 100 times its static delay, and the unicast
\* path runs over it only when no other path from the source to the destination
\* costs less
ZeroCapacityOnlyWhenNothingCheaper ==
    pathcall.pc = "done"
    => /\ ZeroCapacityWeighsHundredfold
       /\ RoutedOverZeroCapacity
          => \A p \in SimplePathsFrom(BuildGraph(links), <<pathcall.src>>, pathcall.dsts[1]) :
                PathCost(BuildGraph(links), p) >= RouteCost(links, pathcall.result)

\* C19 as stated: the unicast path runs over a link with bw_capacity = 0 only when
\* every other path from the source to the destination costs more
ZeroCapacityOnlyWhenAllOthersCostMore ==
    RoutedOverZeroCapacity
    => \A p \in SimplePathsFrom(BuildGraph(links), <<pathcall.src>>, pathcall.dsts[1]) :
          \/ Range(LinksOfPath(BuildGraph(links), p)) = Range(pathcall.result)
          \/ PathCost(BuildGraph(links), p) > RouteCost(links, pathcall.result)

\* the unicast path runs over a link without capacity although the graph holds another
\* path, which costs more
ZeroCapacityChosenOverCostlier ==
    /\ RoutedOverZeroCapacity
    /\ \E p \in SimplePathsFrom(BuildGraph(links), <<pathcall.src>>, pathcall.dsts[1]) :
          PathCost(BuildGraph(links), p) > RouteCost(links, pathcall.result)

\* the destinations that calculate_path keeps: those that are nodes of the graph
ValidDsts(ls, dsts) == SelectSeq(dsts, LAMBDA d : InSeq(d, BuildGraph(ls).nodes))

\* C20: calculate_path raises nothing; it returns the empty list when the source is not
\* in the graph, when no destination is in the graph, when the only valid destination
\* is unreachable or is the source; destinations outside the graph are dropped and
\* the others are routed
CalculatePathReturnsOnEveryInput ==
    pathcall.pc = "done"
    => /\ pathcall.result # Raised
       /\ ~InSeq(pathcall.src, BuildGraph(links).nodes) => pathcall.result = <<>>
       /\ ValidDsts(links, pathcall.dsts) = <<>> => pathcall.result = <<>>
       /\ InSeq(pathcall.src, BuildGraph(links).nodes)
          => /\ (/\ Len(ValidDsts(links, pathcall.dsts)) = 1
                 /\ \/ ValidDsts(links, pathcall.dsts)[1] \notin ConnectedTo(links, pathcall.src)
                    \/ ValidDsts(links, pathcall.dsts)[1] = pathcall.src)
                => pathcall.result = <<>>
             /\ pathcall.result
                   = CalculatePath(links, pathcall.src, ValidDsts(links, pathcall.dsts),
                                   set_order)
             /\ \A i \in 1..Len(ValidDsts(links, pathcall.dsts)) :
                   ValidDsts(links, pathcall.dsts)[i] \in ConnectedTo(links, pathcall.src)
                   => ValidDsts(links, pathcall.dsts)[i]
                         \in ReachedIn(pathcall.result, {pathcall.src})

\* a call with a destination outside the graph and two inside it has returned the tree
\* to the two
AbsentDestinationDropped ==
    /\ pathcall.pc = "done"
    /\ Len(pathcall.dsts) = 3 /\ Len(ValidDsts(links, pathcall.dsts)) = 2
    /\ Len(pathcall.result) >= 2
    /\ \A i \in 1..2 : /\ ValidDsts(links, pathcall.dsts)[i] # pathcall.src
                       /\ ValidDsts(links, pathcall.dsts)[i]
                             \in ReachedIn(pathcall.result, {pathcall.src})

\* a call with exactly one valid destination, which is not the source and which the
\* topology joins to the source, has returned
UnicastRouted ==
    /\ pathcall.pc = "done"
    /\ InSeq(pathcall.src, BuildGraph(links).nodes)
    /\ Len(ValidDsts(links, pathcall.dsts)) = 1
    /\ ValidDsts(links, pathcall.dsts)[1] # pathcall.src
    /\ ValidDsts(links, pathcall.dsts)[1] \in ConnectedTo(links, pathcall.src)

\* the links form a chain from node a to node b: each link starts where the one before
\* it ends
ChainFromTo(route, a, b) ==
    /\ route # <<>>
    /\ route[1][1] = a
    /\ route[Len(route)][2] = b
    /\ \A i \in 1..(Len(route) - 1) : route[i][2] = route[i + 1][1]

\* C21: for one valid destination calculate_path returns a path of least total weight
\* as a list of links of which the first starts at src, the last ends at dst and each
\* starts where the one before it ends; on the idle diamond 1-2-4 is chosen for 1 to 4
UnicastIsOrderedShortestPath ==
    UnicastRouted
    => /\ ChainFromTo(pathcall.result, pathcall.src, ValidDsts(links, pathcall.dsts)[1])
       /\ \A p \in SimplePathsFrom(BuildGraph(links), <<pathcall.src>>,
                                   ValidDsts(links, pathcall.dsts)[1]) :
             PathCost(BuildGraph(links), p) >= RouteCost(links, pathcall.result)
       /\ (links = DiamondLinks /\ pathcall.src = "1"
           /\ ValidDsts(links, pathcall.dsts) = <<"4">>)
          => pathcall.result = PathVia2

----------------------------------------------------------------------------
(* Properties of the rendezvous point (specification SpecRoute)               *)

\* the least total weight of a path from n to s, or -1 when the graph joins them not
Distance(G, n, s) ==
    IF SimplePathsFrom(G, <<n>>, s) = {} THEN -1
    ELSE CHOOSE d \in {PathCost(G, p) : p \in SimplePathsFrom(G, <<n>>, s)} :
            \A p \in SimplePathsFrom(G, <<n>>, s) : PathCost(G, p) >= d

\* the largest distance from n to a subscriber, or -1 when n does not reach them all
Eccentricity(G, n, subs) ==
    IF \E s \in subs : Distance(G, n, s) = -1 THEN -1
    ELSE MaxOf({Distance(G, n, s) : s \in subs})

\* the nodes that reach every subscriber with the least eccentricity
Centres(G, subs) ==
    { n \in Range(G.nodes) :
        /\ Eccentricity(G, n, subs) # -1
        /\ \A m \in Range(G.nodes) :
              Eccentricity(G, m, subs) # -1
              => Eccentricity(G, n, subs) <= Eccentricity(G, m, subs) }

\* the rendezvous point the sentence names for the graph and the subscribers in it
LowestCentre(G, subs, rp) ==
    IF G.nodes = <<>> \/ subs = {} THEN rp = ""
    ELSE Centres(G, subs) # {}
         => /\ rp \in Centres(G, subs)
            /\ \A n \in Centres(G, subs) : DpidOf(rp) <= DpidOf(n)

\* C22: select_optimal_rp(S) returns the node with the least greatest distance to the
\* subscribers that are in the graph, the lowest node id among equals (the triangle
\* with subscribers 2 and 3 gives 1), and no node when the graph is empty or holds no
\* subscriber
RpIsLowestCentre ==
    pathcall.pc = "rpdone"
    => LowestCentre(BuildGraph(links),
                    Range(pathcall.subscribers) \cap Range(BuildGraph(links).nodes),
                    pathcall.rp)

----------------------------------------------------------------------------
(* Properties of the MSDP receiver (specification SpecMsdp)                   *)

\* C23: the MSDP receiver records (topic, src_ip) of an SA message only for a topic it
\* does not know yet; an entry of active_sources, once set, never changes under any
\* interleaving of the peer-handler threads; a message that is not an SA changes
\* nothing, and no message changes the flows of OF-DB
ActiveSourcesNeverChange ==
    [][ /\ \A t \in DOMAIN msdp.active_sources :
              /\ t \in DOMAIN msdp'.active_sources
              /\ msdp'.active_sources[t] = msdp.active_sources[t]
        /\ \A t \in DOMAIN msdp'.active_sources \ DOMAIN msdp.active_sources :
              \E i \in 1..Len(msdp.peers) :
                 /\ msdp.peers[i].data.kind = "json" /\ msdp.peers[i].data.type = "SA"
                 /\ msdp.peers[i].data.topic = t
                 /\ msdp.peers[i].data.src_ip = msdp'.active_sources[t]
                 /\ msdp'.peers[i].pc = "closed"
        /\ GetAllFlows' = GetAllFlows ]_vars

----------------------------------------------------------------------------
(* Properties of the network monitor (specification SpecMon)                  *)

\* the last n elements of s, or s when it has no more than n
LastN(s, n) == IF Len(s) > n THEN SubSeq(s, Len(s) - n + 1, Len(s)) ELSE s

\* C24: the history of a link never holds more than 20 samples, the oldest one is
\* dropped first, the jitter written is the standard deviation over exactly that window
\* (0 with fewer than 2 samples), and each pass writes its sample to prop_delay
SampleWindowHoldsLatest ==
    /\ [][ monitor.pc = "probing" /\ monitor'.pc = "measuring"
           => LET i == monitor.at
                  key == LinkKey(links[monitor.at])
                  sample == GetLatency(monitor.simulation_mode, links[monitor.at],
                                       monitor'.probes[Len(monitor'.probes)])
              IN  /\ key \in DOMAIN monitor'.history
                  /\ Len(monitor'.history[key]) <= 20
                  /\ monitor'.history[key]
                       = LastN(Append(HistoryOf(monitor.history, key), sample), 20)
                  /\ links'[i].prop_delay = sample
                  /\ links'[i].jitter = IF Len(monitor'.history[key]) < 2 THEN 0
                                        ELSE Stdev(monitor'.history[key]) ]_vars
    /\ [][ monitor'.passes = monitor.passes + 1
           => \A i \in 1..Len(links) :
                 /\ LinkKey(links[i]) \in DOMAIN monitor.history
                 /\ links'[i].prop_delay
                      = monitor.history[LinkKey(links[i])]
                            [Len(monitor.history[LinkKey(links[i])])] ]_vars

\* after more than 20 passes every history is full, and one of them holds a sample
\* that differs from the others
WindowFullAndSliding ==
    /\ monitor.passes > 20
    /\ \A i \in 1..Len(links) : Len(monitor.history[LinkKey(links[i])]) = 20
    /\ \E i \in 1..Len(links) : links[i].jitter > 0

\* the probes that fail: no management address, a timeout, scapy missing, an exception
FailedProbe(probe) == probe.kind \in {"no_address", "timeout", "import_error", "raises"}

\* C25: a probe that fails never surfaces: _get_latency returns the sentinel 0.1 ms for
\* it, the pass completes for the remaining links, and the monitor loop keeps running
ProbeFailuresNeverSurface ==
    /\ monitor.pc # "dead"
    /\ ( /\ monitor.pc = "measuring" /\ monitor.at > 0
         /\ FailedProbe(monitor.probes[monitor.at]) )
       => /\ links[monitor.at].prop_delay = 100
          /\ monitor.history[LinkKey(links[monitor.at])]
                [Len(monitor.history[LinkKey(links[monitor.at])])] = 100
    /\ (monitor.pc = "sleeping" /\ monitor.passes > 0)
       => \A i \in 1..Len(links) :
             /\ LinkKey(links[i]) \in DOMAIN monitor.history
             /\ Len(monitor.history[LinkKey(links[i])])
                  = (IF monitor.passes > 20 THEN 20 ELSE monitor.passes)
             /\ FailedProbe(monitor.probes[i])
                => /\ links[i].prop_delay = 100
                   /\ monitor.history[LinkKey(links[i])]
                         [Len(monitor.history[LinkKey(links[i])])] = 100

\* a pass in which the probe of the first link raised and the second link was measured
ProbeRaisedAndPassCompleted ==
    /\ monitor.pc = "sleeping" /\ monitor.passes > 0
    /\ monitor.probes[1].kind = "raises"
    /\ monitor.probes[2].kind = "reply"
    /\ links[1].prop_delay = 100
    /\ links[2].prop_delay = 5000

----------------------------------------------------------------------------
(* Properties of the topic life cycle (specification Spec)                    *)

\* C26: the switches are programmed for a topic only after its registration was
\* admitted; handle_new_subscriber for a topic that was never registered, or whose
\* registration was rejected, records the subscriber, sends nothing to any switch and
\* creates no flow
OnlyAdmittedTopicsAreProgrammed ==
    [][\A c \in calls :
          AloneReturnOf(c)
          => /\ Tables' # c.before.tables => reg'[c.topic].status = "admitted"
             /\ (c.op = "join" /\ c.before.reg[c.topic].status # "admitted")
                => /\ c.args.sub_ip \in subscribers'[c.topic]
                   /\ Tables' = c.before.tables
                   /\ DOMAIN flows' = DOMAIN c.before.flows ]_vars

----------------------------------------------------------------------------
(* Properties of the committed tree (specification Spec)                      *)

\* the groups that a step installs for flow f are those of the forwarding map of
\* route_links(f): none besides them, and one for every connected switch of the map
\* that did not hold the group id before
InstalledFromRouteLinks(f, before, after) ==
    /\ \A g \in after \ before :
          \E i \in 1..Len(FwdMap(links, f.route_links)) :
             /\ FwdMap(links, f.route_links)[i].dpid = g.dpid
             /\ FwdMap(links, f.route_links)[i].ports = g.ports
             /\ g.gid = f.multicast_group_id
    /\ \A i \in 1..Len(FwdMap(links, f.route_links)) :
          (/\ FwdMap(links, f.route_links)[i].dpid \in datapaths
           /\ ~\E g \in before : /\ g.dpid = FwdMap(links, f.route_links)[i].dpid
                                 /\ g.gid = f.multicast_group_id)
          => [dpid |-> FwdMap(links, f.route_links)[i].dpid,
              gid |-> f.multicast_group_id,
              ports |-> FwdMap(links, f.route_links)[i].ports] \in after

\* C27: route_links(f) is the tree that is committed: after every register_rt_flow
\* that admits and every handle_new_subscriber, for qi = 0 and for qi > 0, the
\* forwarding map installed is the one derived from route_links(f), and for qi > 0
\* route_links(f) is the path from src_ip to broker_ips
RouteLinksIsCommittedTree ==
    [][\A c \in calls :
          (/\ AloneReturnOf(c)
           /\ c.topic \in DOMAIN flows'
           /\ reg'[c.topic].status = "admitted")
          => /\ InstalledFromRouteLinks(GetAllFlows'[c.topic], c.before.tables.groups,
                                        sw_groups')
             /\ GetAllFlows'[c.topic].qi > 0
                => GetAllFlows'[c.topic].route_links
                      = CalculatePath(links, GetAllFlows'[c.topic].src_ip,
                                      GetAllFlows'[c.topic].broker_ips, set_order) ]_vars

----------------------------------------------------------------------------
(* Properties of _install_multicast_tree (specification Spec)                 *)

\* the switches of the diamond
Dpids == {1, 2, 3, 4}

\* fwd[dpid]: the output ports of the links of the route that start at the switch
FwdPorts(route, dpid) ==
    {route[i][3] : i \in {j \in 1..Len(route) : DpidOf(route[j][1]) = dpid}}

\* the tables T hold for the switch exactly one meter, one group and one flow rule of
\* flow f, with the rate, the buckets and the priority of the sentence
HoldsExactly(T, dpid, f, ports) ==
    /\ {m.rate : m \in {x \in T.meters : x.dpid = dpid /\ x.mid = f.multicast_group_id}}
          = {f.bwi * 1000}
    /\ {g.ports : g \in {x \in T.groups : x.dpid = dpid /\ x.gid = f.multicast_group_id}}
          = {ports}
    /\ Cardinality({r \in T.rules : /\ r.dpid = dpid /\ r.gid = f.multicast_group_id
                                    /\ r.priority = 100 + f.pi}) = 1

\* the entries of the switch in the tables T
EntriesOf(T, dpid) ==
    [groups |-> {x \in T.groups : x.dpid = dpid},
     meters |-> {x \in T.meters : x.dpid = dpid},
     rules |-> {x \in T.rules : x.dpid = dpid}]

\* C28: with fwd[dpid] the output ports of the tree links that start at dpid, every
\* switch that is the source of a tree link gets exactly one meter of rate bwi * 1000
\* kbps, one group whose buckets are exactly fwd[dpid] and one flow rule of priority
\* 100 + pi that points to the group; a switch that is the source of no tree link gets
\* nothing
TreeSourcesAreProgrammedExactly ==
    [][\A c \in calls :
          (/\ AloneReturnOf(c)
           /\ c.topic \in DOMAIN flows'
           /\ reg'[c.topic].status = "admitted"
           /\ GetAllFlows'[c.topic].qi = 0)
          => \A dpid \in Dpids :
                IF FwdPorts(GetAllFlows'[c.topic].route_links, dpid) # {}
                THEN HoldsExactly(Tables', dpid, GetAllFlows'[c.topic],
                                  FwdPorts(GetAllFlows'[c.topic].route_links, dpid))
                ELSE EntriesOf(Tables', dpid) = EntriesOf(c.before.tables, dpid) ]_vars

----------------------------------------------------------------------------
(* Properties of the orientation of a route (specification SpecRoute)         *)

\* C29: every link that calculate_path returns is oriented away from the source, also
\* when OF-DB holds both directions of a physical link: the i-th link of a unicast
\* path goes from the i-th node of the path to the next, and the directed graph of the
\* links returned leads from the source to every destination that the topology joins
\* to it
RoutesLeadAwayFromSource ==
    (pathcall.pc = "done" /\ InSeq(pathcall.src, BuildGraph(links).nodes))
    => /\ \A i \in 1..Len(ValidDsts(links, pathcall.dsts)) :
             (/\ ValidDsts(links, pathcall.dsts)[i] # pathcall.src
              /\ ValidDsts(links, pathcall.dsts)[i] \in ConnectedTo(links, pathcall.src))
             => ShortestPath(pathcall.result, pathcall.src,
                             ValidDsts(links, pathcall.dsts)[i]) # NoPath
       /\ UnicastRouted
          => \A i \in 1..Len(pathcall.result) :
                /\ pathcall.result[i][1]
                     = DijkstraPath(BuildGraph(links), pathcall.src,
                                    ValidDsts(links, pathcall.dsts)[1])[i]
                /\ pathcall.result[i][2]
                     = DijkstraPath(BuildGraph(links), pathcall.src,
                                    ValidDsts(links, pathcall.dsts)[1])[i + 1]

----------------------------------------------------------------------------
(* Properties of the interference test (specification SpecAdm)                *)

\* flow g has another topic than f, runs over the link and has at least the priority
\* of f
InterferesOn(l, g, f) ==
    /\ g.ft_i # f.ft_i
    /\ \E i \in 1..Len(g.route_links) :
          g.route_links[i][1] = l[1] /\ g.route_links[i][2] = l[2]
    /\ g.pi >= f.pi

\* C30: get_interfering_flows_on_link(l, f, F) returns exactly the flows g of F with
\* another topic than f, with l in route_links(g) and with pi(g) >= pi(f): f itself is
\* never returned, also when F holds it more than once, a flow of equal priority
\* interferes and a flow of strictly lower priority never does
InterferersAreTheOthersOfNoLowerPriority ==
    adm.pc = "ifdone"
    => /\ \A i \in 1..Len(adm.result) :
             /\ InSeq(adm.result[i], adm.all_flows)
             /\ InterferesOn(adm.link, adm.result[i], adm.subject_flow)
             /\ adm.result[i].pi >= adm.subject_flow.pi
       /\ \A j \in 1..Len(adm.all_flows) :
             InterferesOn(adm.link, adm.all_flows[j], adm.subject_flow)
             => InSeq(adm.all_flows[j], adm.result)
       /\ ~InSeq(adm.subject_flow, adm.result)
       /\ Len(adm.result)
             = Cardinality({j \in 1..Len(adm.all_flows) :
                              InterferesOn(adm.link, adm.all_flows[j], adm.subject_flow)})

\* the list holds the subject flow twice, a flow of equal priority on the link, which
\* is returned, and a flow of lower priority on the link, which is not
EqualPriorityReturnedAndLowerLeftOut ==
    /\ adm.pc = "ifdone"
    /\ Cardinality({j \in 1..Len(adm.all_flows) : adm.all_flows[j] = adm.subject_flow}) = 2
    /\ Len(adm.result) = 1
    /\ adm.result[1].pi = adm.subject_flow.pi
    /\ \E j \in 1..Len(adm.all_flows) :
          /\ adm.all_flows[j].pi < adm.subject_flow.pi
          /\ SharesLink(adm.link, adm.all_flows[j])
          /\ adm.all_flows[j].ft_i # adm.subject_flow.ft_i

----------------------------------------------------------------------------
(* Properties of the Trajectory Approach (specification SpecAdm)              *)

\* the interference that flow f meets on link k: for every interferer g of the list,
\* ceil(di(f) / ti(g)) * ci(g)
InterferenceOn(k, f, F) ==
    SumSeq([j \in 1..Len(F) |->
              IF InterferesOn(k, F[j], f) THEN Ceil(f.di, F[j].ti) * F[j].ci ELSE 0])

\* the bound of the branch of f along the links of path: ci, the hardware delays and
\* the interference of every hop
BranchBound(ls, f, F, path) ==
    f.ci
    + SumSeq([i \in 1..Len(path) |->
                LinkOf(ls, path[i]).prop_delay + LinkOf(ls, path[i]).switch_delay
                + LinkOf(ls, path[i]).proc_delay])
    + SumSeq([i \in 1..Len(path) |-> InterferenceOn(path[i], f, F)])

\* the destinations of f that the directed graph of route_links(f) joins to src_ip
Served(f) ==
    {d \in Range(f.dst_ips) : ShortestPath(f.route_links, f.src_ip, d) # NoPath}

\* the bound of the sentence: the largest branch bound, and the processing delay of
\* the broker when qi > 0
TrajectoryBound(ls, f, F) ==
    MaxOf({BranchBound(ls, f, F,
                       BranchLinks(f.route_links,
                                   ShortestPath(f.route_links, f.src_ip, d))) :
             d \in Served(f)})
    + (IF f.qi > 0 THEN f.processing_delay ELSE 0)

\* C31 as stated: TrajectoryApproach.calculate_wcrt(f, F) is the maximum, over the
\* destinations of f, of ci(f) plus the hardware delays of the path to the destination
\* plus, for each link of the path, ceil(di(f) / ti(g)) * ci(g) summed over its
\* interferers g, plus processing_delay(f) when qi(f) > 0
TrajectoryIsMaxOverBranches ==
    adm.pc = "tadone" => adm.result = TrajectoryBound(links, adm.flow, adm.all_flows)

\* the destinations of f that a path of at least one link of route_links(f) serves
ServedOverLinks(f) ==
    {d \in Served(f) : Len(ShortestPath(f.route_links, f.src_ip, d)) > 1}

TrajectoryBoundOverLinks(ls, f, F) ==
    MaxOf({BranchBound(ls, f, F,
                       BranchLinks(f.route_links,
                                   ShortestPath(f.route_links, f.src_ip, d))) :
             d \in ServedOverLinks(f)})
    + (IF f.qi > 0 THEN f.processing_delay ELSE 0)

\* C31: TrajectoryApproach.calculate_wcrt(f, F) is the maximum, over the destinations
\* of f that route_links(f) serves by a path of at least one link, of ci(f) plus the
\* hardware delays of the path plus, for each link of the path, ceil(di(f) / ti(g)) *
\* ci(g) summed over its interferers g (0 when there is no such destination), plus
\* processing_delay(f) when qi(f) > 0
TrajectoryIsMaxOverLinkedBranches ==
    adm.pc = "tadone"
        => adm.result = TrajectoryBoundOverLinks(links, adm.flow, adm.all_flows)

\* flow B of the experiment (ci 5, di 50) with the interferer of period 20 and ci 0.5
\* on both hops of its path: 10 + 5 + 2 * 3 * 0.5 = 18
TrajectoryOfFlowBIs18 ==
    /\ adm.pc = "tadone"
    /\ adm.flow.ci = 5000 /\ adm.flow.di = 50000 /\ adm.flow.qi = 0
    /\ adm.flow.route_links = PathVia2 /\ adm.flow.dst_ips = <<"4">>
    /\ Len(adm.all_flows) = 2
    /\ InterferesOn(PathVia2[1], adm.all_flows[1], adm.flow)
    /\ InterferesOn(PathVia2[2], adm.all_flows[1], adm.flow)
    /\ adm.result = 18000

----------------------------------------------------------------------------
(* Properties of the Holistic Approach (specification SpecHa)                 *)

\* static of the analysis: transmission, propagation, switching, processing and
\* queuing delay of every link of the route
RouteDelay(ls, f) ==
    SumSeq([i \in 1..Len(f.route_links) |->
              LET l == LinkOf(ls, f.route_links[i])
              IN  f.ci \div l.bw_capacity
                  + Fine(l.prop_delay + l.switch_delay + l.proc_delay + l.queuing_delay)])

RouteJitter(ls, f) ==
    SumSeq([i \in 1..Len(f.route_links) |-> Fine(LinkOf(ls, f.route_links[i]).jitter)])

\* g interferes with f on some link of the route of f
Interferes(g, f) ==
    \E i \in 1..Len(f.route_links) : InterferesOn(f.route_links[i], g, f)

\* the interference over the window w: every interferer of the list once
InterferenceOver(w, f, F) ==
    SumSeq([j \in 1..Len(F) |->
              IF Interferes(F[j], f) /\ \A i \in 1..(j - 1) : F[i] # F[j]
              THEN Ceil(w + Fine(F[j].measured_jitter), Fine(F[j].ti)) * Fine(F[j].ci)
              ELSE 0])

NoInterferer(f, F) == \A j \in 1..Len(F) : ~Interferes(F[j], f)

\* the right-hand side of the recurrence at w, with the term extra added
Recurrence(ls, f, F, w, extra) ==
    RouteDelay(ls, f) + Fine(f.ci) + RouteJitter(ls, f) + InterferenceOver(w, f, F) + extra

\* the sentence about the result, the recurrence taken with the term extra
HolisticResult(extra) ==
    /\ adm.pc = "haloop" /\ adm.turns = 0
           => adm.w = RouteDelay(links, adm.flow) + Fine(adm.flow.ci)
                      + Fine(adm.flow.processing_delay)
    /\ adm.pc = "hadone"
           => /\ \/ Abs(adm.result
                        - Recurrence(links, adm.flow, adm.all_flows, adm.result, extra))
                       <= Epsilon
                 \/ adm.returned = "early" /\ adm.result > Fine(adm.flow.di)
              /\ ( /\ NoInterferer(adm.flow, adm.all_flows)
                   /\ RouteDelay(links, adm.flow) + Fine(adm.flow.ci)
                      + Fine(adm.flow.processing_delay) <= Fine(adm.flow.di) )
                     => adm.result = RouteDelay(links, adm.flow) + Fine(adm.flow.ci)
                                     + Fine(adm.flow.processing_delay)
                                     + RouteJitter(links, adm.flow)

\* C32 as stated: calculate_wcrt starts from w0 = static + ci + processing_delay and
\* returns a w with w = static + ci + jitter_sum + the interference over w of every
\* interferer once, to within 0.001 ms, or on the early exit a w greater than di; with
\* no interferer and a feasible deadline the result includes the jitter of the route
HolisticIsFixedPointWithoutProcessing == HolisticResult(0)

\* C32: calculate_wcrt starts from w0 = static + ci + processing_delay and returns a w
\* with w = static + ci + processing_delay + jitter_sum + the interference over w of
\* every interferer once, to within 0.001 ms, or on the early exit a w greater than
\* di; with no interferer and a feasible deadline the result includes the jitter of
\* the route
HolisticIsFixedPoint == HolisticResult(Fine(adm.flow.processing_delay))

\* a converged result of a flow with a processing delay and an interferer that
\* shares both links of its route
HolisticConvergedUnderSharedInterferer ==
    /\ adm.pc = "hadone" /\ adm.returned = "converged"
    /\ adm.flow.route_links = PathVia2 /\ adm.flow.processing_delay > 0
    /\ \E j \in 1..Len(adm.all_flows) :
          /\ InterferesOn(PathVia2[1], adm.all_flows[j], adm.flow)
          /\ InterferesOn(PathVia2[2], adm.all_flows[j], adm.flow)
    /\ adm.result <= Fine(adm.flow.di)
    /\ RouteJitter(links, adm.flow) > 0

\* C33: the fixed-point iteration terminates: from one turn of the loop to the next
\* w does not decrease, a w above di ends the loop at once, and every call returns,
\* by convergence or by the early exit, whatever the utilization of the interferers
HolisticIterationTerminates ==
    /\ [][adm.pc = "haloop" /\ adm'.pc = "haloop" => adm'.w >= adm.w]_vars
    /\ [][adm.pc = "haloop" /\ adm.w > Fine(adm.flow.di) => adm'.pc = "hadone"]_vars
    /\ (adm.pc = "hacall") ~> (adm.pc = "hadone"
                               /\ adm.returned \in {"converged", "early"})

\* a call that left by the early exit after two turns or more, under an interferer
\* whose utilization is 1 or more
EarlyExitUnderOverload ==
    /\ adm.pc = "hadone" /\ adm.returned = "early" /\ adm.turns >= 2
    /\ \E j \in 1..Len(adm.all_flows) :
          /\ Interferes(adm.all_flows[j], adm.flow)
          /\ adm.all_flows[j].ci >= adm.all_flows[j].ti

----------------------------------------------------------------------------
(* Purity of the analyses (specification SpecPure)                            *)

\* C34: HolisticApproach.calculate_wcrt, TrajectoryApproach.calculate_wcrt and
\* check_admissibility leave OF-DB (switches, links, flows, subscribers), the passed
\* flow list and every field of every flow unchanged, and a second call with the same
\* arguments returns the result of the first
AnalysesArePure ==
    /\ [][adm.pc \in {"call", "tacall", "hacall"}
            => /\ links' = links /\ datapaths' = datapaths
               /\ flows' = flows /\ subscribers' = subscribers
               /\ adm'.cells[adm.list] = adm.cells[adm.list]
               /\ \A f \in DOMAIN objs : objs'[f] = objs[f]]_vars
    /\ [](adm.pc \in {"done", "tadone", "hadone"} /\ adm.before # <<>>
            => adm.before = <<adm.result>>)

\* an admission check over two flows and the candidate, held by the list too, that
\* has returned a second time, rejecting
SecondAdmissionCheckReturned ==
    /\ adm.pc = "done" /\ adm.before # <<>>
    /\ Len(adm.cells.existing_flows) = 3
    /\ ~adm.result

----------------------------------------------------------------------------
(* Properties of the multicast branch of calculate_path (specification        *)
(* SpecRoute)                                                                 *)

\* the links of the edges of G that the set E of edge positions selects
LinksAt(G, E) ==
    LET n == SeqOfSet(E) IN [i \in 1..Len(n) |-> G.edges[n[i]].link_obj]

CostAt(G, E) ==
    LET n == SeqOfSet(E) IN SumSeq([i \in 1..Len(n) |-> G.edges[n[i]].weight])

\* the positions of the edges of G that hold the links of the route
EdgesUnder(G, route) ==
    {i \in 1..Len(G.edges) : InSeq(G.edges[i].link_obj, route)}

\* the least cost of a set of edges of G that joins the terminals to src
OptimalTreeCost(G, src, terminals) ==
    LET joining == {E \in SUBSET (1..Len(G.edges)) :
                      terminals \subseteq ReachedIn(LinksAt(G, E), {src})}
    IN  CHOOSE c \in {CostAt(G, E) : E \in joining} :
           \A E \in joining : CostAt(G, E) >= c

EndsOf(route) ==
    {route[i][1] : i \in 1..Len(route)} \cup {route[i][2] : i \in 1..Len(route)}

Degree(route, n) == Cardinality({i \in 1..Len(route) : n \in {route[i][1], route[i][2]}})

\* route is a tree of links of G over the terminals, every leaf a terminal, of at most
\* twice the least cost
IsSteinerApproximation(G, src, terminals, route) ==
    /\ \A i \in 1..Len(route) : \E j \in 1..Len(G.edges) : G.edges[j].link_obj = route[i]
    /\ \A i, j \in 1..Len(route) : i # j => route[i] # route[j]
    /\ terminals \subseteq ReachedIn(route, {src})
    /\ ReachedIn(route, {src}) = EndsOf(route) \cup {src}
    /\ Len(route) = Cardinality(EndsOf(route) \cup {src}) - 1
    /\ \A n \in EndsOf(route) : Degree(route, n) = 1 => n \in terminals
    /\ CostAt(G, EdgesUnder(G, route)) <= 2 * OptimalTreeCost(G, src, terminals)

\* the node paths of least cost from src to d
ShortestPaths(G, src, d) ==
    {p \in SimplePathsFrom(G, <<src>>, d) : PathCost(G, p) = Distance(G, src, d)}

\* route is a union of one shortest path from src to each destination that has one,
\* each link once
IsUnionOfShortestPaths(G, src, dsts, route) ==
    /\ \A i, j \in 1..Len(route) : i # j => route[i] # route[j]
    /\ \A d \in dsts :
          Distance(G, src, d) >= 0
          => \E p \in ShortestPaths(G, src, d) :
                Range(NodesToLinks(G, p)) \subseteq Range(route)
    /\ \A i \in 1..Len(route) :
          \E d \in dsts : \E p \in ShortestPaths(G, src, d) :
             /\ InSeq(route[i], NodesToLinks(G, p))
             /\ Range(NodesToLinks(G, p)) \subseteq Range(route)
    /\ \A d \in dsts : Distance(G, src, d) >= 0 => d \in ReachedIn(route, {src})

\* steiner_tree fails on a graph that is not connected
SteinerFails(G) == ~(Range(G.nodes) \subseteq ReachedIn(LinksAt(G, 1..Len(G.edges)),
                                                        {G.nodes[1]}))

\* C35: for two or more valid destinations calculate_path returns the links of a
\* Steiner-tree approximation over the source and the destinations; when the
\* approximation fails it returns the union of the shortest paths from the source to
\* every destination that has one, each link once, so that every destination that
\* the source reaches is covered
MulticastIsSteinerTreeOrUnion ==
    ( /\ pathcall.pc = "done"
      /\ InSeq(pathcall.src, BuildGraph(links).nodes)
      /\ Len(ValidDsts(links, pathcall.dsts)) >= 2 )
    => IF SteinerFails(BuildGraph(links))
       THEN IsUnionOfShortestPaths(BuildGraph(links), pathcall.src,
                                   Range(ValidDsts(links, pathcall.dsts)), pathcall.result)
       ELSE IsSteinerApproximation(BuildGraph(links), pathcall.src,
                                   {pathcall.src} \cup Range(ValidDsts(links, pathcall.dsts)),
                                   pathcall.result)

\* the approximation has failed and the union of the paths to two destinations, which
\* share a link, has been returned beside a destination that has no path
UnionReturnedAfterFailure ==
    /\ pathcall.pc = "done"
    /\ SteinerFails(BuildGraph(links))
    /\ pathcall.src = "1" /\ pathcall.dsts = <<"4", "2">>
    /\ Len(pathcall.result) = 2

----------------------------------------------------------------------------
(* Grafting a subscriber that the tree already serves (specification Spec)    *)

\* the subscriber is a destination of the flow or sits at a node of its tree
Covered(f, sub_ip) ==
    \/ InSeq(sub_ip, f.dst_ips)
    \/ \E i \in 1..Len(f.route_links) : sub_ip \in {f.route_links[i][1], f.route_links[i][2]}

\* the step is the return of handle_new_subscriber(t, sub_ip), entered when the flow
\* of t covered sub_ip
CoveredGraft(c) ==
    /\ AloneReturnOf(c) /\ c.op = "join"
    /\ c.topic \in DOMAIN c.before.flows
    /\ Covered(c.before.flows[c.topic], c.args.sub_ip)

\* C36: when handle_new_subscriber adds a subscriber that is a destination of the flow
\* or sits at a node of its tree, dst_ips holds the subscriber afterwards, route_links
\* is the same set of links as before, and bw_used of every link is unchanged
CoveredGraftKeepsTheTree ==
    [][\A c \in calls :
          CoveredGraft(c)
          => /\ InSeq(c.args.sub_ip, GetAllFlows'[c.topic].dst_ips)
             /\ Range(GetAllFlows'[c.topic].route_links)
                   = Range(c.before.flows[c.topic].route_links)
             /\ \A i \in 1..Len(links) : links'[i].bw_used = c.before.links[i].bw_used]_vars

----------------------------------------------------------------------------
(* The frame of a measurement pass (specification SpecMon)                    *)

\* C37: a measurement pass of the monitor changes prop_delay and jitter of links and
\* its own history only: bw_used, bw_capacity, src, dst and port_out of every link,
\* the set of links and switches and all flows and subscribers stay as they were
PassChangesDelayAndJitterOnly ==
    [][monitor' # monitor
         => /\ Len(links') = Len(links)
            /\ \A i \in 1..Len(links) :
                  links'[i] = [links[i] EXCEPT !.prop_delay = links'[i].prop_delay,
                                               !.jitter = links'[i].jitter]
            /\ UNCHANGED <<flows, objs, subscribers, datapaths>>]_vars

\* passes have measured the loaded link: its delay and jitter moved, its load did not
LoadedLinkMeasured ==
    /\ monitor.passes >= 2
    /\ links[1].prop_delay # 5000 /\ links[1].jitter > 0
    /\ links[1].bw_used = 50 /\ links[1].bw_capacity = 100
    /\ DOMAIN flows = {"tA"}

----------------------------------------------------------------------------
(* Atomicity of monitor passes and routing queries (specification SpecRace)   *)

\* C38: a link added while the monitor is in the middle of a pass never aborts the
\* pass or stops the monitor loop, and all the links that one routing query reads for
\* its edge weights are read from a single state of of_db.links
PassesAndQueriesAreAtomic ==
    /\ monitor.pc # "dead"
    /\ pathcall.pc = "built" => pathcall.read \in pathcall.seen

====
